---- MODULE Spec2Model ----
(***************************************************************************)
(* Verification model of map-machine's geometric rendering core:           *)
(*   - ring winding (figure.py: is_clockwise, make_clockwise,              *)
(*     make_counter_clockwise, Figure.__init__),                           *)
(*   - building attributes and isometric band compositing                  *)
(*     (feature/building.py: Building.__init__; mapper.py:                 *)
(*     Map.draw_buildings),                                                *)
(*   - the path mini-language and the drawing surfaces (drawing.py:        *)
(*     parse_path, PNGDrawing._do_path, path, rectangle, line, write),     *)
(*   - wall colours (feature/building.py: draw_walls),                     *)
(*   - the order of figures (figure.py: StyledFigure.__lt__),              *)
(*   - the passes of Map.draw and render_map (mapper.py), the scheme path  *)
(*     (workspace.py), the boundary box option (main.py),                  *)
(*   - MinMax (util.py) and the cache of get_osm (osm/osm_getter.py).      *)
(*                                                                         *)
(* Every component has its own specification (RingSpec, BuildingSpec,      *)
(* DrawSpec, PathSpec, WallSpec, OrderSpec, MapSpec, WriteSpec, BoxSpec,   *)
(* RenderSpec, MinMaxSpec, OsmSpec); the variables of the other components *)
(* stay at their idle values.                                              *)
(***************************************************************************)
EXTENDS Integers, Sequences, FiniteSets, TLC

VARIABLES
    \* ---- figure.py ----
    ringPc,       \* which operation of figure.py has run
    polygon,      \* the ring handed to the operation (list of node coordinates)
    count,        \* is_clockwise: local `count` when the loop ended
    clockwise,    \* is_clockwise: its return value
    made,         \* make_clockwise(polygon)
    made_twice,   \* make_clockwise(make_clockwise(polygon))
    arg_inners,   \* Figure.__init__: argument `inners`
    arg_outers,   \* Figure.__init__: argument `outers`
    inners,       \* Figure.inners
    outers,       \* Figure.outers
    \* ---- feature/building.py: Building.__init__ ----
    bldPc,        \* "start" before Building(...), "built" after
    tags,         \* the tags the Building is built from
    building,     \* the Building object
    \* ---- mapper.py: Map.draw_buildings ----
    drawPc,          \* "start", "bands" (inside the loop over heights), "done"
    buildings,       \* constructor.buildings
    heights,         \* constructor.heights
    building_mode,   \* configuration.building_mode
    draw_roofs,      \* configuration.draw_roofs
    svg,             \* the elements added to self.svg, in order
    building_shade,  \* the paths of the shade group
    sorted_walls,    \* local sorted_walls
    bands,           \* the part of sorted(constructor.heights) still to visit
    previous_height, \* local previous_height
    \* ---- drawing.py: parse_path, SVGDrawing.path, PNGDrawing.path ----
    pathPc,       \* "start", "parsed", "do_path", "done", "raised"
    backend,      \* the Drawing path() is called on: "svg" or "png"
    text,         \* the path text handed to parse_path
    commands,     \* the PathCommands parse_path returned
    pathError,    \* the exception raised, None when there is none
    style,        \* the Style handed to path()
    image,        \* SVGDrawing.image: the elements added
    context,      \* PNGDrawing.context: the cairo calls made, in order
    pass,         \* PNGDrawing.path: "fill" or "stroke", the pass running
    index,        \* _do_path: local index (1-based)
    current,      \* _do_path: local current
    start_point,  \* _do_path: local start_point
    command,      \* _do_path: local command
    is_absolute,  \* _do_path: local is_absolute
    \* ---- feature/building.py: draw_walls ----
    wallPc,       \* "start" before draw_walls(...), "drawn" after
    wall_call,    \* the arguments of the call
    wall_svg,     \* the elements added to its argument `svg`
    \* ---- figure.py: StyledFigure.__lt__ ----
    orderPc,      \* "start" before the comparisons, "compared" after
    figures,      \* three StyledFigure objects
    less,         \* less[i][j]: the value of figures[i] < figures[j]
    \* ---- drawing.py: rectangle and line of SVGDrawing and PNGDrawing ----
    shape,        \* the operation called: "rectangle", "line", else "none"
    points,       \* its points: <<point_1, point_2>> or the list `points`
    \* ---- mapper.py: Map.draw ----
    mapPc,        \* "start", the pass Map.draw is about to make, "done"
    scene,        \* the constructor: what there is to draw
    config,       \* the toggles of self.scheme and self.configuration
    map_svg,      \* the draw operations made on self.svg, in order
    occupied,     \* local `occupied`
    \* ---- drawing.py: write ----
    writePc,      \* "start", "writing", "failing", "returned", "raised"
    writer,       \* the class of the drawing: "SVGDrawing" or "PNGDrawing"
    pieces,       \* the number of pieces the serialized image is written in
    fault,        \* where the file system fails this write, if it does
    output_file,  \* the handle of the output file: "none", "open", "closed"
    written,      \* the number of pieces in the file
    writeError,   \* the exception write raised, or None
    opens,        \* the number of times the file was opened
    \* ---- main.py: BoundaryBox.convert ----
    boxPc,        \* "start" before convert(value, ...), "returned", "raised"
    box_value,    \* argument `value`: the text of the option
    box_result,   \* the error convert raised, or the tuple it returned
    \* ---- mapper.py: render_map; workspace.py: Workspace.find_scheme_path ----
    renderPc,     \* "start", "box", "files", "load", "draw", "done", "raised", "exited"
    render_args,  \* the arguments of render_map
    is_file,      \* the paths that are files
    network,      \* what get_osm does when called: "ok" or "NetworkError"
    scheme_path,  \* local scheme_path, <<>> before it is set
    boundary_box_obj, \* local boundary_box_obj, <<>> for None
    input_file_names, \* local input_file_names
    requests,     \* the calls of get_osm made
    osm_data,     \* the files parsed into osm_data, in order
    render_error, \* the exception raised or the critical message logged, or None
    \* ---- util.py: MinMax ----
    minmaxPc,     \* "fresh" after MinMax(), "updated" after an update
    min_,         \* MinMax.min_, <<>> for None
    max_,         \* MinMax.max_, <<>> for None
    passed,       \* the values passed to update, in order
    \* ---- osm/osm_getter.py: get_osm ----
    osmPc,        \* "start" before the first call of get_osm, "called" after one
    cache,        \* the cache file: <<>> when there is none, else <<its content>>
    cache_written, \* get_osm has written the cache file
    osm_calls,    \* the number of calls of get_osm made
    last          \* the last call: its argument, the cache file before it, the request, the outcome

ringVars == <<ringPc, polygon, count, clockwise, made, made_twice,
              arg_inners, arg_outers, inners, outers>>

bldVars == <<bldPc, tags, building>>

drawVars == <<drawPc, buildings, heights, building_mode, draw_roofs, svg,
              building_shade, sorted_walls, bands, previous_height>>

pathVars == <<pathPc, backend, text, commands, pathError, style, image, context, pass,
              index, current, start_point, command, is_absolute>>

wallVars == <<wallPc, wall_call, wall_svg>>

orderVars == <<orderPc, figures, less>>

shapeVars == <<shape, points>>

mapVars == <<mapPc, scene, config, map_svg, occupied>>

writeVars == <<writePc, writer, pieces, fault, output_file, written, writeError,
               opens>>

boxVars == <<boxPc, box_value, box_result>>

renderVars == <<renderPc, render_args, is_file, network, scheme_path,
                boundary_box_obj, input_file_names, requests, osm_data,
                render_error>>

minmaxVars == <<minmaxPc, min_, max_, passed>>

osmVars == <<osmPc, cache, cache_written, osm_calls, last>>

vars ==
    <<ringVars, bldVars, drawVars, pathVars, wallVars, orderVars, shapeVars,
      mapVars, writeVars, boxVars, renderVars, minmaxVars, osmVars>>

\* What the operations of one component leave alone.
NotRingVars ==
    <<bldVars, drawVars, pathVars, wallVars, orderVars, shapeVars, mapVars,
      writeVars, boxVars, renderVars, minmaxVars, osmVars>>
NotBldVars ==
    <<ringVars, drawVars, pathVars, wallVars, orderVars, shapeVars, mapVars,
      writeVars, boxVars, renderVars, minmaxVars, osmVars>>
NotDrawVars ==
    <<ringVars, bldVars, pathVars, wallVars, orderVars, shapeVars, mapVars,
      writeVars, boxVars, renderVars, minmaxVars, osmVars>>
NotPathVars ==
    <<ringVars, bldVars, drawVars, wallVars, orderVars, shapeVars, mapVars,
      writeVars, boxVars, renderVars, minmaxVars, osmVars>>
NotWallVars ==
    <<ringVars, bldVars, drawVars, pathVars, orderVars, shapeVars, mapVars,
      writeVars, boxVars, renderVars, minmaxVars, osmVars>>
NotOrderVars ==
    <<ringVars, bldVars, drawVars, pathVars, wallVars, shapeVars, mapVars,
      writeVars, boxVars, renderVars, minmaxVars, osmVars>>
NotDrawingVars ==
    <<ringVars, bldVars, drawVars, wallVars, orderVars, mapVars, writeVars,
      boxVars, renderVars, minmaxVars, osmVars>>
NotMapVars ==
    <<ringVars, bldVars, drawVars, pathVars, wallVars, orderVars, shapeVars,
      writeVars, boxVars, renderVars, minmaxVars, osmVars>>
NotWriteVars ==
    <<ringVars, bldVars, drawVars, pathVars, wallVars, orderVars, shapeVars,
      mapVars, boxVars, renderVars, minmaxVars, osmVars>>
NotBoxVars ==
    <<ringVars, bldVars, drawVars, pathVars, wallVars, orderVars, shapeVars,
      mapVars, writeVars, renderVars, minmaxVars, osmVars>>
NotRenderVars ==
    <<ringVars, bldVars, drawVars, pathVars, wallVars, orderVars, shapeVars,
      mapVars, writeVars, boxVars, minmaxVars, osmVars>>
NotMinMaxVars ==
    <<ringVars, bldVars, drawVars, pathVars, wallVars, orderVars, shapeVars,
      mapVars, writeVars, boxVars, renderVars, osmVars>>
NotOsmVars ==
    <<ringVars, bldVars, drawVars, pathVars, wallVars, orderVars, shapeVars,
      mapVars, writeVars, boxVars, renderVars, minmaxVars>>

None == "None"

Abs(v) == IF v < 0 THEN -v ELSE v

RECURSIVE Pow2(_)
Pow2(n) == IF n = 0 THEN 1 ELSE 2 * Pow2(n - 1)

Reverse(s) == [i \in 1..Len(s) |-> s[Len(s) + 1 - i]]

(***************************************************************************)
(* Python floats.  figure.py computes the winding sum in IEEE-754 binary   *)
(* floating point (`count: float = 0.0`, coordinates are float arrays):    *)
(* every +, - and * rounds its exact result to the nearest value with a    *)
(* fixed number of significant bits, ties to even.  The model keeps this   *)
(* rounding but with MantBits significant bits instead of 53, over integer *)
(* coordinates, so that TLC can enumerate rings on which rounding happens. *)
(***************************************************************************)
MantBits == 5

\* The unit in the last place of a magnitude a: the smallest power of two q
\* with a \div q < 2^MantBits.
RECURSIVE Quantum(_, _)
Quantum(a, q) == IF a \div q < Pow2(MantBits) THEN q ELSE Quantum(a, 2 * q)

\* Round to nearest, ties to even.
Round(v) ==
    LET a  == Abs(v)
        q  == Quantum(a, 1)
        m  == a \div q
        r  == a % q
        up == (2 * r > q) \/ (2 * r = q /\ m % 2 = 1)
        n  == (IF up THEN m + 1 ELSE m) * q
    IN IF v < 0 THEN -n ELSE n

FAdd(a, b) == Round(a + b)
FSub(a, b) == Round(a - b)
FMul(a, b) == Round(a * b)

(***************************************************************************)
(* figure.py: is_clockwise / make_clockwise / make_counter_clockwise       *)
(***************************************************************************)

\* The for-loop of is_clockwise from index `at` on (1-based), `cnt` being the
\* value of the local `count` so far.
RECURSIVE is_clockwise_loop(_, _, _)
is_clockwise_loop(poly, at, cnt) ==
    IF at > Len(poly) THEN cnt
    ELSE LET next_index == IF at = Len(poly) THEN 1 ELSE at + 1
             term == FMul(FSub(poly[next_index][1], poly[at][1]),
                          FAdd(poly[next_index][2], poly[at][2]))
         IN is_clockwise_loop(poly, at + 1, FAdd(cnt, term))

is_clockwise_count(poly) == is_clockwise_loop(poly, 1, 0)

is_clockwise_strict(poly) == is_clockwise_count(poly) > 0

is_clockwise(poly) == is_clockwise_count(poly) >= 0

make_clockwise(poly) == IF is_clockwise(poly) THEN poly ELSE Reverse(poly)

make_counter_clockwise(poly) ==
    IF ~is_clockwise(poly) THEN poly ELSE Reverse(poly)

\* Figure.__init__: the rings are normalised only when both lists are
\* non-empty.
FigureInners(inn, out) ==
    IF inn # <<>> /\ out # <<>>
    THEN [i \in 1..Len(inn) |-> make_clockwise(inn[i])]
    ELSE inn

FigureOuters(inn, out) ==
    IF inn # <<>> /\ out # <<>>
    THEN [i \in 1..Len(out) |-> make_counter_clockwise(out[i])]
    ELSE out

(***************************************************************************)
(* drawing.py: parse_path                                                  *)
(*                                                                         *)
(* A str is the sequence of its characters.  An element of a PathCommands  *)
(* list is a str, a numpy array or a float:                                *)
(*   [t |-> "str", s |-> characters, a |-> <<>>]                           *)
(*   [t |-> "array", s |-> <<>>, a |-> components]                         *)
(*   [t |-> "float", s |-> <<>>, a |-> <<value>>]                          *)
(***************************************************************************)
Str(s) == [t |-> "str", s |-> s, a |-> <<>>]
Array(a) == [t |-> "array", s |-> <<>>, a |-> a]
Float(v) == [t |-> "float", s |-> <<>>, a |-> <<v>>]

\* str.split(sep): the pieces between the separators; two separators in a
\* row, or one at an end, give an empty piece.
RECURSIVE SplitFrom(_, _, _, _)
SplitFrom(s, sep, i, piece) ==
    IF i > Len(s) THEN <<piece>>
    ELSE IF s[i] = sep THEN <<piece>> \o SplitFrom(s, sep, i + 1, <<>>)
    ELSE SplitFrom(s, sep, i + 1, Append(piece, s[i]))

Split(s, sep) == SplitFrom(s, sep, 1, <<>>)

\* `a in b` for two str: a is a contiguous part of b (the empty str is in
\* every str).
IsSubstring(a, b) ==
    \E i \in 0..(Len(b) - Len(a)) : SubSeq(b, i + 1, i + Len(a)) = a

CommandLetters == <<"C", "c", "L", "l", "M", "m", "Z", "z", "V", "v", "H", "h">>

LowerChar(c) ==
    CASE c = "C" -> "c" [] c = "L" -> "l" [] c = "M" -> "m" [] c = "Z" -> "z"
      [] c = "V" -> "v" [] c = "H" -> "h" [] c = "X" -> "x" [] OTHER -> c

\* str.lower()
Lower(s) == [i \in 1..Len(s) |-> LowerChar(s[i])]

Digits == {"0", "1", "2", "3", "4", "5", "6", "7", "8", "9"}

DigitValue(c) ==
    CASE c = "0" -> 0 [] c = "1" -> 1 [] c = "2" -> 2 [] c = "3" -> 3
      [] c = "4" -> 4 [] c = "5" -> 5 [] c = "6" -> 6 [] c = "7" -> 7
      [] c = "8" -> 8 [] c = "9" -> 9

RECURSIVE DecimalValue(_)
DecimalValue(s) ==
    IF s = <<>> THEN 0
    ELSE 10 * DecimalValue(SubSeq(s, 1, Len(s) - 1)) + DigitValue(s[Len(s)])

\* float(s) for a str of the characters of the model (digits, "-", ",",
\* letters): an optional "-" and at least one digit give the number, any
\* other str raises ValueError.  [ok |-> parsed, v |-> value]
ParseFloat(s) ==
    LET digits == IF s # <<>> /\ s[1] = "-" THEN Tail(s) ELSE s
        valid == digits # <<>> /\ \A i \in 1..Len(digits) : digits[i] \in Digits
    IN IF ~valid THEN [ok |-> FALSE, v |-> 0]
       ELSE [ok |-> TRUE,
             v |-> IF s[1] = "-" THEN -DecimalValue(digits)
                   ELSE DecimalValue(digits)]

\* list(map(float, elements)): [ok |-> all parsed, v |-> values]
ParseFloats(elements) ==
    [ok |-> \A i \in 1..Len(elements) : ParseFloat(elements[i]).ok,
     v  |-> [i \in 1..Len(elements) |-> ParseFloat(elements[i]).v]]

Raised(error, result) == [error |-> error, result |-> result]

\* Line 301: the part is taken for a command letter.
IsCommandPart(part) == IsSubstring(part, CommandLetters)

\* The while-loop of parse_path from index `at` on (1-based), `active` being
\* the local `command`.
RECURSIVE parse_path_loop(_, _, _, _)
parse_path_loop(parts, at, active, result) ==
    IF at > Len(parts) THEN Raised(None, result)
    ELSE LET part == parts[at] IN
        IF IsCommandPart(part)
        THEN parse_path_loop(parts, at + 1, part, Append(result, Str(part)))
        ELSE IF IsSubstring(active, <<"V", "v", "H", "h">>)
        THEN IF ParseFloat(part).ok
             THEN parse_path_loop(parts, at + 1, active,
                                  Append(result, Float(ParseFloat(part).v)))
             ELSE Raised("ValueError", result)
        ELSE IF \E i \in 1..Len(part) : part[i] = ","
        THEN LET elements == ParseFloats(Split(part, ","))
             IN IF elements.ok
                THEN parse_path_loop(parts, at + 1, active,
                                     Append(result, Array(elements.v)))
                ELSE Raised("ValueError", result)
        ELSE IF ~ParseFloat(part).ok THEN Raised("ValueError", result)
        ELSE IF at + 1 > Len(parts) THEN Raised("IndexError", result)
        ELSE IF ~ParseFloat(parts[at + 1]).ok THEN Raised("ValueError", result)
        ELSE parse_path_loop(parts, at + 2, active,
                 Append(result, Array(<<ParseFloat(part).v,
                                        ParseFloat(parts[at + 1]).v>>)))

parse_path(path) == parse_path_loop(Split(path, " "), 1, <<"M">>, <<>>)

(***************************************************************************)
(* drawing.py: Style, SVGDrawing.path, PNGDrawing.path, _do_path           *)
(***************************************************************************)
Call(name, args) == [op |-> name, args |-> args]

\* Style(fill, stroke, width): a colour is a name, None when unset.
Styles == [fill : {None, "fill_color"}, stroke : {None, "stroke_color"}, width : {1}]

NoStyle == [fill |-> None, stroke |-> None, width |-> 1]

\* Style.update_svg_element: the attributes set on the element.
SvgElement(d, st) ==
    [d            |-> d,
     fill         |-> IF st.fill # None THEN st.fill ELSE "none",
     stroke       |-> IF st.stroke # None THEN st.stroke ELSE None,
     stroke_width |-> IF st.stroke # None THEN st.width ELSE 0]

\* Style.draw_png_fill / Style.draw_png_stroke: the cairo calls made.
draw_png_fill(st) ==
    IF st.fill = None THEN <<>>
    ELSE <<Call("set_source_rgba", <<st.fill>>), Call("fill", <<>>)>>

draw_png_stroke(st) ==
    IF st.stroke = None THEN <<>>
    ELSE <<Call("set_source_rgba", <<st.stroke>>),
           Call("set_line_width", <<st.width>>), Call("stroke", <<>>)>>

\* The tuple () that start_point starts as, and None, which the code tests
\* it against: [none |-> it is None, v |-> its components].
EmptyTuple == [none |-> FALSE, v |-> <<>>]

PointValue(point) == [none |-> FALSE, v |-> point]

\* Lines 226, 247, 265: `if start_point is None: start_point = point`.
StartPointAfter(start, point) == IF start.none THEN PointValue(point) ELSE start

\* numpy a + b: component-wise for equal lengths, a one-component operand
\* (a float) is broadcast, other shapes raise.  [ok, v]
ArrayAdd(a, b) ==
    IF Len(a) = Len(b)
    THEN [ok |-> TRUE, v |-> [i \in 1..Len(a) |-> a[i] + b[i]]]
    ELSE IF Len(b) = 1
    THEN [ok |-> TRUE, v |-> [i \in 1..Len(a) |-> a[i] + b[1]]]
    ELSE IF Len(a) = 1
    THEN [ok |-> TRUE, v |-> [i \in 1..Len(b) |-> a[1] + b[i]]]
    ELSE [ok |-> FALSE, v |-> <<>>]

(***************************************************************************)
(* feature/building.py: Building.__init__                                  *)
(*                                                                         *)
(* Heights and lengths are counted in half metres, so that 8.0 and 2.5 are *)
(* the integers 16 and 5.                                                  *)
(***************************************************************************)
BUILDING_MINIMAL_HEIGHT == 16
LEVEL_HEIGHT == 5

\* An Optional[float] is <<>> for None and <<v>> for the number v.
\* Python truthiness of an Optional[float]: None and 0.0 are false.
TruthyNumber(v) == v # <<>> /\ v[1] # 0

\* Python truthiness of an Optional[str]: None and "" are false.
TruthyText(v) == v # None /\ v # ""

\* Tagged.get_float / Tagged.get_length: the number a tag holds, None when
\* the tag is missing or does not parse.  The model keeps tag values already
\* parsed.
get_float(t, key) == t[key]

get_length(t, key) == t[key]

\* Scheme.get_color: the colour a name or a tag value stands for, kept
\* symbolic.
get_color(name) == <<"color", name>>

\* Scheme.material_colors
material_colors == [m \in {"brick"} |-> <<"material", m>>]

\* Building.__init__, lines 101-114: the wall colour.  Each `if` overwrites
\* what the one before it assigned.
WallDefaultColor(t) ==
    IF t.building = "construction" \/ t.construction = "yes"
    THEN get_color("wall_construction_color")
    ELSE get_color("wall_color")

WallColorFirstWins(t) ==
    IF TruthyText(t.material) /\ t.material \in DOMAIN material_colors
    THEN material_colors[t.material]
    ELSE IF TruthyText(t.building_colour) THEN get_color(t.building_colour)
    ELSE IF TruthyText(t.colour) THEN get_color(t.colour)
    ELSE WallDefaultColor(t)

WallColor(t) ==
    LET c0 == WallDefaultColor(t)
        c1 == IF TruthyText(t.material) /\ t.material \in DOMAIN material_colors
              THEN material_colors[t.material] ELSE c0
        c2 == IF TruthyText(t.building_colour)
              THEN get_color(t.building_colour) ELSE c1
        c3 == IF TruthyText(t.colour) THEN get_color(t.colour) ELSE c2
    IN c3

\* Building.__init__, lines 98 and 116-123: the height.
HeightFirstWins(t) ==
    IF TruthyNumber(get_float(t, "levels"))
    THEN BUILDING_MINIMAL_HEIGHT + get_float(t, "levels")[1] * LEVEL_HEIGHT
    ELSE IF TruthyNumber(get_length(t, "height"))
    THEN BUILDING_MINIMAL_HEIGHT + get_length(t, "height")[1]
    ELSE BUILDING_MINIMAL_HEIGHT

Height(t) ==
    LET h0 == BUILDING_MINIMAL_HEIGHT
        h1 == IF TruthyNumber(get_float(t, "levels"))
              THEN BUILDING_MINIMAL_HEIGHT + get_float(t, "levels")[1] * LEVEL_HEIGHT
              ELSE h0
        h2 == IF TruthyNumber(get_length(t, "height"))
              THEN BUILDING_MINIMAL_HEIGHT + get_length(t, "height")[1]
              ELSE h1
    IN h2

\* Building.__init__, lines 99 and 119-126: the minimal height.
MinHeightFirstWins(t) ==
    IF TruthyNumber(get_float(t, "min_level"))
    THEN BUILDING_MINIMAL_HEIGHT + get_float(t, "min_level")[1] * LEVEL_HEIGHT
    ELSE IF TruthyNumber(get_length(t, "min_height"))
    THEN BUILDING_MINIMAL_HEIGHT + get_length(t, "min_height")[1]
    ELSE 0

MinHeight(t) ==
    LET m0 == 0
        m1 == IF TruthyNumber(get_float(t, "min_level"))
              THEN BUILDING_MINIMAL_HEIGHT + get_float(t, "min_level")[1] * LEVEL_HEIGHT
              ELSE m0
        m2 == IF TruthyNumber(get_length(t, "min_height"))
              THEN BUILDING_MINIMAL_HEIGHT + get_length(t, "min_height")[1]
              ELSE m1
    IN m2

\* Building(tags, inners, outers, flinger, scheme); `parts` is the sorted
\* list of wall segments built from the rings.
Building(t, parts) ==
    [is_construction    |-> (t.building = "construction" \/ t.construction = "yes"),
     has_walls          |-> (t.building # "roof"),
     parts              |-> parts,
     height             |-> Height(t),
     min_height         |-> MinHeight(t),
     wall_default_color |-> WallDefaultColor(t),
     wall_color         |-> WallColor(t)]

(***************************************************************************)
(* Inputs of Building.__init__: the tags it reads.  None is a missing tag. *)
(***************************************************************************)
MaxLevels == 2
MaxLength == 2

TagSpace ==
    [building        : {"yes", "construction", "roof"},
     construction    : {None, "yes"},
     material        : {None, "", "brick", "straw"},
     building_colour : {None, "", "red"},
     colour          : {None, "", "blue"},
     levels          : {<<>>} \cup {<<n>> : n \in 0..MaxLevels},
     min_level       : {<<>>} \cup {<<n>> : n \in 0..MaxLevels},
     height          : {<<>>} \cup {<<n>> : n \in 0..MaxLength},
     min_height      : {<<>>} \cup {<<n>> : n \in 0..MaxLength}]

NoTags ==
    [building |-> "yes", construction |-> None, material |-> None,
     building_colour |-> None, colour |-> None, levels |-> <<>>,
     min_level |-> <<>>, height |-> <<>>, min_height |-> <<>>]

\* building = Building(tags, ...)
BuildingNew ==
    /\ bldPc = "start"
    /\ bldPc' = "built"
    /\ building' = Building(tags, <<>>)
    /\ UNCHANGED tags
    /\ UNCHANGED NotBldVars

(***************************************************************************)
(* mapper.py: Map.draw_buildings                                           *)
(*                                                                         *)
(* A Segment is an object: [id |-> <<building, index>>, y |-> sort key].   *)
(* Segments are compared by their key (Segment.__lt__) and hashed by       *)
(* identity.                                                               *)
(***************************************************************************)
SegmentLess(a, b) == a.y < b.y

\* sorted(list): Python's sort is stable and uses only `<`.
RECURSIVE Insert(_, _)
Insert(sorted, x) ==
    IF sorted = <<>> THEN <<x>>
    ELSE IF SegmentLess(x, sorted[Len(sorted)])
         THEN Append(Insert(SubSeq(sorted, 1, Len(sorted) - 1), x),
                     sorted[Len(sorted)])
         ELSE Append(sorted, x)

RECURSIVE SortSegments(_)
SortSegments(list) ==
    IF list = <<>> THEN <<>>
    ELSE Insert(SortSegments(SubSeq(list, 1, Len(list) - 1)), list[Len(list)])

RECURSIVE SortedHeights(_)
SortedHeights(set) ==
    IF set = {} THEN <<>>
    ELSE LET least == CHOOSE h \in set : \A g \in set : h <= g
         IN <<least>> \o SortedHeights(set \ {least})

\* Lines 172-176: the keys of `walls` in insertion order (a later building
\* re-inserting a key keeps the key's place), and the building each key maps
\* to (the last one that holds it).
RECURSIVE WallKeys(_, _)
WallKeys(blds, k) ==
    IF k = 0 THEN <<>>
    ELSE LET before == WallKeys(blds, k - 1)
             seen == {before[i] : i \in 1..Len(before)}
         IN before \o SelectSeq(blds[k].parts, LAMBDA p : p \notin seen)

WallOwner(blds, wall) ==
    CHOOSE k \in 1..Len(blds) :
        /\ \E i \in 1..Len(blds[k].parts) : blds[k].parts[i] = wall
        /\ \A j \in (k + 1)..Len(blds) :
               \A i \in 1..Len(blds[j].parts) : blds[j].parts[i] # wall

Element(kind, b, part, top, bottom, band) ==
    [kind |-> kind, building |-> b, part |-> part, top |-> top,
     bottom |-> bottom, band |-> band]

NoPart == <<0, 0>>

\* Line 186: the walls of `bld` are skipped in the band topping at `height`.
SkipWallAlways(bld, height) == bld.height < height

SkipWall(bld, height) == bld.height < height \/ bld.min_height >= height

\* Line 201: the roof of `bld` is drawn in the band topping at `height`.
RoofUpTo(bld, height) == bld.height >= height

RoofHere(bld, height) == bld.height = height

\* Lines 184-197: the wall quads of one band, in the order of sorted_walls.
BandWalls(blds, walls, height, previous) ==
    LET drawn == SelectSeq(walls,
                     LAMBDA w : ~SkipWall(blds[WallOwner(blds, w)], height))
    IN [i \in 1..Len(drawn) |->
           Element("wall", WallOwner(blds, drawn[i]), drawn[i].id, height,
                   previous, height)]

\* Lines 199-202: the roofs of one band, in the order of the buildings.
BandRoofs(blds, roofs, height) ==
    LET idx == SelectSeq([k \in 1..Len(blds) |-> k],
                         LAMBDA k : roofs /\ RoofHere(blds[k], height))
    IN [i \in 1..Len(idx) |->
           Element("roof", idx[i], NoPart, blds[idx[i]].height, 0, height)]

\* Lines 159-161: flat buildings.
FlatBuildings(blds) ==
    [k \in 1..Len(blds) |-> Element("flat", k, NoPart, 0, 0, 0)]

\* Building.draw_shade for every building: the silhouette, then one quad per
\* consecutive node pair.
RECURSIVE ShadePaths(_, _)
ShadePaths(blds, k) ==
    IF k = 0 THEN <<>>
    ELSE ShadePaths(blds, k - 1)
         \o <<Element("shade", k, NoPart, blds[k].height, blds[k].min_height, 0)>>
         \o [i \in 1..Len(blds[k].parts) |->
                Element("shade_quad", k, blds[k].parts[i].id, blds[k].height,
                        blds[k].min_height, 0)]

(***************************************************************************)
(* Inputs of Map.draw_buildings.                                           *)
(***************************************************************************)
MaxBuildings == 2

\* Tags of the buildings drawn: heights 8 m and 10 m, minimal heights 0 and
\* 9 m.
DrawTags ==
    {[NoTags EXCEPT !.height = hm[1], !.min_height = hm[2]] :
        hm \in {<<(<<>>), (<<>>)>>, <<(<<4>>), (<<>>)>>, <<(<<4>>), (<<2>>)>>}}
        \cup {[NoTags EXCEPT !.building = "roof", !.height = <<4>>]}

\* The sort keys of a building's wall segments, as Building.__init__ leaves
\* them: sorted.
PartKeys == {<<0>>, <<0, 1>>, <<1, 1>>}

\* The tops of the height bands, in half metres: 0, 5 m, 8 m, 10 m.
BandTops == {0, 10, 16, 20}

BuildingChoices == DrawTags \X PartKeys

BuildingAt(k, choice) ==
    Building(choice[1],
             [i \in 1..Len(choice[2]) |-> [id |-> <<k, i>>, y |-> choice[2][i]]])

BuildingLists ==
    UNION {{[k \in 1..n |-> BuildingAt(k, c[k])] : c \in [1..n -> BuildingChoices]} :
              n \in 0..MaxBuildings}

\* Lines 157-158: building_mode is NO.
DrawBuildingsNo ==
    /\ drawPc = "start"
    /\ building_mode = "NO"
    /\ drawPc' = "done"
    /\ UNCHANGED <<buildings, heights, building_mode, draw_roofs, svg,
                   building_shade, sorted_walls, bands, previous_height>>
    /\ UNCHANGED NotDrawVars

\* Lines 159-162: building_mode is FLAT.
DrawBuildingsFlat ==
    /\ drawPc = "start"
    /\ building_mode = "FLAT"
    /\ svg' = svg \o FlatBuildings(buildings)
    /\ drawPc' = "done"
    /\ UNCHANGED <<buildings, heights, building_mode, draw_roofs,
                   building_shade, sorted_walls, bands, previous_height>>
    /\ UNCHANGED NotDrawVars

\* Lines 164-180: the shade group, the wall table and the start of the loop
\* over the sorted heights.
DrawBuildingsShade ==
    /\ drawPc = "start"
    /\ building_mode = "ISOMETRIC"
    /\ building_shade' = ShadePaths(buildings, Len(buildings))
    /\ svg' = Append(svg, Element("shade_group", 0, NoPart, 0, 0, 0))
    /\ sorted_walls' = SortSegments(WallKeys(buildings, Len(buildings)))
    /\ bands' = SortedHeights(heights)
    /\ previous_height' = 0
    /\ drawPc' = "bands"
    /\ UNCHANGED <<buildings, heights, building_mode, draw_roofs>>
    /\ UNCHANGED NotDrawVars

\* Lines 181-204: one iteration of the loop over the sorted heights.
DrawBand ==
    /\ drawPc = "bands"
    /\ bands # <<>>
    /\ LET height == Head(bands)
       IN /\ svg' = svg \o BandWalls(buildings, sorted_walls, height,
                                      previous_height)
                        \o BandRoofs(buildings, draw_roofs, height)
          /\ previous_height' = height
    /\ bands' = Tail(bands)
    /\ UNCHANGED <<drawPc, buildings, heights, building_mode, draw_roofs,
                   building_shade, sorted_walls>>
    /\ UNCHANGED NotDrawVars

\* The loop over the sorted heights ends and draw_buildings returns.
DrawBuildingsReturn ==
    /\ drawPc = "bands"
    /\ bands = <<>>
    /\ drawPc' = "done"
    /\ UNCHANGED <<buildings, heights, building_mode, draw_roofs, svg,
                   building_shade, sorted_walls, bands, previous_height>>
    /\ UNCHANGED NotDrawVars

(***************************************************************************)
(* Inputs of the path operations: path texts of up to MaxTokens tokens     *)
(* joined by single spaces (an empty token gives two spaces in a row), and *)
(* the scenario texts.                                                     *)
(***************************************************************************)
MaxTokens == 3

PathTokens ==
    {<<"M">>, <<"m">>, <<"L">>, <<"H">>, <<"v">>, <<"Z">>, <<"C">>,
     <<"L", "l">>, <<"X">>, <<>>,
     <<"0", ",", "0">>, <<"1", ",", "2">>, <<"3">>}

RECURSIVE Join(_)
Join(tokens) ==
    IF Len(tokens) = 0 THEN <<>>
    ELSE IF Len(tokens) = 1 THEN tokens[1]
    ELSE tokens[1] \o <<" ">> \o Join(Tail(tokens))

\* "M 0,0 L 10,0 L 10,10 Z"
ScenarioText ==
    Join(<<(<<"M">>), (<<"0", ",", "0">>), (<<"L">>), (<<"1", "0", ",", "0">>),
           (<<"L">>), (<<"1", "0", ",", "1", "0">>), (<<"Z">>)>>)

\* "M 0,0 C 1,2 0,0 1,2" and "m 1,2 c 1,2 0,0 1,2 3 3"
CurveTexts ==
    {Join(<<(<<"M">>), (<<"0", ",", "0">>), (<<"C">>), (<<"1", ",", "2">>),
            (<<"0", ",", "0">>), (<<"1", ",", "2">>)>>),
     Join(<<(<<"m">>), (<<"1", ",", "2">>), (<<"c">>), (<<"1", ",", "2">>),
            (<<"0", ",", "0">>), (<<"1", ",", "2">>), (<<"3">>), (<<"3">>)>>)}

\* "M 1,2 H 3", "M 1,2 h 3", "M 1,2 V 3" and "M 1,2 v 3"
AxisTexts ==
    {Join(<<(<<"M">>), (<<"1", ",", "2">>), letter, (<<"3">>)>>) :
        letter \in {<<"H">>, <<"h">>, <<"V">>, <<"v">>}}

PathTexts ==
    {Join(tokens) : tokens \in UNION {[1..n -> PathTokens] : n \in 0..MaxTokens}}
        \cup {ScenarioText} \cup CurveTexts \cup AxisTexts

\* Lines 194-203: the locals of _do_path when it starts.
PathLocalsStart ==
    /\ index = 1
    /\ current = <<0, 0>>
    /\ start_point = EmptyTuple
    /\ command = <<"M">>
    /\ is_absolute = TRUE

\* commands = parse_path(text)
ParsePath ==
    /\ pathPc = "start"
    /\ LET parsed == parse_path(text)
       IN /\ pathError' = parsed.error
          /\ commands' = IF parsed.error = None THEN parsed.result ELSE <<>>
          /\ pathPc' = IF parsed.error = None THEN "parsed" ELSE "raised"
    /\ UNCHANGED <<backend, text, style, image, context, pass, index, current,
                   start_point, command, is_absolute>>
    /\ UNCHANGED NotPathVars

\* Command lists a caller of path() builds itself, without parse_path:
\* ['M', (0, 0), 'X'], ['M', (0, 0), 'X', (1, 2)] and ['M', (0, 0), 'L', (1, 2)].
GivenCommands ==
    {<<Str(<<"M">>), Array(<<0, 0>>), Str(<<"X">>)>>,
     <<Str(<<"M">>), Array(<<0, 0>>), Str(<<"X">>), Array(<<1, 2>>)>>,
     <<Str(<<"M">>), Array(<<0, 0>>), Str(<<"L">>), Array(<<1, 2>>)>>}

\* The caller hands path() a list of its own; no text is parsed.
CommandsGiven ==
    /\ pathPc = "start"
    /\ text = <<>>
    /\ commands' \in GivenCommands
    /\ pathPc' = "parsed"
    /\ UNCHANGED <<backend, text, pathError, style, image, context, pass, index,
                   current, start_point, command, is_absolute>>
    /\ UNCHANGED NotPathVars

\* SVGDrawing.path(commands, style)
SvgPath ==
    /\ pathPc = "parsed"
    /\ \E st \in Styles :
        /\ style' = st
        /\ image' = Append(image, SvgElement(commands, st))
    /\ backend' = "svg"
    /\ pathPc' = "done"
    /\ UNCHANGED <<text, commands, pathError, context, pass, index, current,
                   start_point, command, is_absolute>>
    /\ UNCHANGED NotPathVars

\* PNGDrawing.path(commands, style), up to its first call of _do_path.
PngPath ==
    /\ pathPc = "parsed"
    /\ \E st \in Styles :
        /\ style' = st
        /\ pass' = IF st.fill # None THEN "fill"
                   ELSE IF st.stroke # None THEN "stroke" ELSE "none"
        /\ pathPc' = IF st.fill = None /\ st.stroke = None
                     THEN "done" ELSE "do_path"
    /\ backend' = "png"
    /\ UNCHANGED <<text, commands, pathError, image, context, index, current,
                   start_point, command, is_absolute>>
    /\ UNCHANGED NotPathVars

InDoPath == pathPc = "do_path" /\ index <= Len(commands)

DoPathRaise(error) ==
    /\ pathError' = error
    /\ pathPc' = "raised"

\* Lines 207-213: the element is a str.
DoPathCommand ==
    /\ InDoPath
    /\ commands[index].t = "str"
    /\ LET element == commands[index].s IN
        /\ is_absolute' = (Lower(element) # element)
        /\ command' = Lower(element)
        /\ IF Lower(element) # <<"z">>
           THEN /\ index' = index + 1
                /\ UNCHANGED <<pathPc, pathError, context, current, start_point>>
           ELSE IF start_point.none
           THEN /\ DoPathRaise("TypeError")
                /\ UNCHANGED <<context, current, start_point, index>>
           ELSE IF Len(start_point.v) < 2
           THEN /\ DoPathRaise("IndexError")
                /\ UNCHANGED <<context, current, start_point, index>>
           ELSE /\ context' = Append(context,
                        Call("line_to", <<start_point.v[1], start_point.v[2]>>))
                /\ current' = start_point.v
                /\ start_point' = EmptyTuple
                /\ index' = index + 1
                /\ UNCHANGED <<pathPc, pathError>>
    /\ UNCHANGED <<backend, text, commands, style, image, pass>>
    /\ UNCHANGED NotPathVars

\* Lines 215-227: an operand while command is in "ml".
DoPathMoveLine ==
    /\ InDoPath
    /\ commands[index].t # "str"
    /\ IsSubstring(command, <<"m", "l">>)
    /\ LET sum == ArrayAdd(current, commands[index].a)
           point == IF is_absolute THEN commands[index].a ELSE sum.v
       IN IF ~is_absolute /\ ~sum.ok
          THEN /\ DoPathRaise("ValueError")
               /\ UNCHANGED <<context, current, start_point, index>>
          ELSE IF command \in {<<"m">>, <<"l">>} /\ Len(point) < 2
          THEN /\ DoPathRaise("IndexError")
               /\ current' = point
               /\ UNCHANGED <<context, start_point, index>>
          ELSE /\ current' = point
               /\ context' =
                    IF command = <<"m">>
                    THEN Append(context, Call("move_to", <<point[1], point[2]>>))
                    ELSE IF command = <<"l">>
                    THEN Append(context, Call("line_to", <<point[1], point[2]>>))
                    ELSE context
               /\ start_point' = StartPointAfter(start_point, point)
               /\ index' = index + 1
               /\ UNCHANGED <<pathPc, pathError>>
    /\ UNCHANGED <<backend, text, commands, style, image, pass, command,
                   is_absolute>>
    /\ UNCHANGED NotPathVars

\* The operand `at` of a curve is an array of at least two components.
CurvePoint(at) == commands[at].t = "array" /\ Len(commands[at].a) >= 2

\* Lines 229-249: an operand while command is 'c'.
DoPathCurve ==
    /\ InDoPath
    /\ commands[index].t # "str"
    /\ ~IsSubstring(command, <<"m", "l">>)
    /\ command = <<"c">>
    /\ IF index + 2 > Len(commands)
       THEN /\ DoPathRaise("IndexError")
            /\ UNCHANGED <<context, current, start_point, index>>
       ELSE IF \E at \in index..(index + 2) : ~CurvePoint(at)
       THEN /\ DoPathRaise("TypeError")
            /\ UNCHANGED <<context, current, start_point, index>>
       ELSE LET sum_1 == ArrayAdd(current, commands[index].a)
                sum_2 == ArrayAdd(current, commands[index + 1].a)
                sum_3 == ArrayAdd(current, commands[index + 2].a)
                point_1 == IF is_absolute THEN commands[index].a ELSE sum_1.v
                point_2 == IF is_absolute THEN commands[index + 1].a ELSE sum_2.v
                point_3 == IF is_absolute THEN commands[index + 2].a ELSE sum_3.v
            IN IF ~is_absolute /\ ~(sum_1.ok /\ sum_2.ok /\ sum_3.ok)
               THEN /\ DoPathRaise("ValueError")
                    /\ UNCHANGED <<context, current, start_point, index>>
               ELSE /\ current' = point_3
                    /\ context' = Append(context,
                            Call("curve_to", <<point_1[1], point_1[2], point_2[1],
                                               point_2[2], point_3[1], point_3[2]>>))
                    /\ start_point' = StartPointAfter(start_point, point_1)
                    /\ index' = index + 3
                    /\ UNCHANGED <<pathPc, pathError>>
    /\ UNCHANGED <<backend, text, commands, style, image, pass, command,
                   is_absolute>>
    /\ UNCHANGED NotPathVars

\* Lines 251-266: an operand while command is in "vh".
DoPathAxis ==
    /\ InDoPath
    /\ commands[index].t # "str"
    /\ ~IsSubstring(command, <<"m", "l">>)
    /\ command # <<"c">>
    /\ IsSubstring(command, <<"v", "h">>)
    /\ IF commands[index].t # "float"
       THEN /\ DoPathRaise("AssertionError")
            /\ UNCHANGED <<context, current, start_point, index>>
       ELSE LET value == commands[index].a[1]
                axis == IF command = <<"v">> THEN <<0, value>> ELSE <<value, 0>>
                sum == ArrayAdd(current, axis)
                point == IF is_absolute THEN axis ELSE sum.v
            IN IF ~is_absolute /\ ~sum.ok
               THEN /\ DoPathRaise("ValueError")
                    /\ UNCHANGED <<context, current, start_point, index>>
               ELSE /\ current' = point
                    /\ context' = Append(context,
                                         Call("line_to", <<point[1], point[2]>>))
                    /\ start_point' = StartPointAfter(start_point, point)
                    /\ index' = index + 1
                    /\ UNCHANGED <<pathPc, pathError>>
    /\ UNCHANGED <<backend, text, commands, style, image, pass, command,
                   is_absolute>>
    /\ UNCHANGED NotPathVars

\* Lines 268-269: an operand under any other command.
DoPathUnsupported ==
    /\ InDoPath
    /\ commands[index].t # "str"
    /\ ~IsSubstring(command, <<"m", "l">>)
    /\ command # <<"c">>
    /\ ~IsSubstring(command, <<"v", "h">>)
    /\ DoPathRaise("NotImplementedError")
    /\ UNCHANGED <<backend, text, commands, style, image, context, pass, index,
                   current, start_point, command, is_absolute>>
    /\ UNCHANGED NotPathVars

\* _do_path returns; PNGDrawing.path paints the pass and, after the fill
\* pass of a style with a stroke, calls _do_path again.
DoPathReturn ==
    /\ pathPc = "do_path"
    /\ index > Len(commands)
    /\ IF pass = "fill"
       THEN /\ context' = context \o draw_png_fill(style)
            /\ IF style.stroke # None
               THEN /\ pass' = "stroke"
                    /\ index' = 1
                    /\ current' = <<0, 0>>
                    /\ start_point' = EmptyTuple
                    /\ command' = <<"M">>
                    /\ is_absolute' = TRUE
                    /\ UNCHANGED pathPc
               ELSE /\ pathPc' = "done"
                    /\ UNCHANGED <<pass, index, current, start_point, command,
                                   is_absolute>>
       ELSE /\ context' = context \o draw_png_stroke(style)
            /\ pathPc' = "done"
            /\ UNCHANGED <<pass, index, current, start_point, command,
                           is_absolute>>
    /\ UNCHANGED <<backend, text, commands, pathError, style, image>>
    /\ UNCHANGED NotPathVars

(***************************************************************************)
(* drawing.py: SVGDrawing.rectangle, SVGDrawing.line, PNGDrawing.rectangle *)
(* and PNGDrawing.line.  They work on the same image, context and style as *)
(* the path operations.                                                    *)
(***************************************************************************)
\* point_2 - point_1
ArraySub(a, b) == [i \in 1..Len(a) |-> a[i] - b[i]]

\* Rect(insert, size) after style.update_svg_element(rectangle)
SvgRect(insert, size, st) ==
    [insert       |-> insert,
     size         |-> size,
     fill         |-> SvgElement(<<>>, st).fill,
     stroke       |-> SvgElement(<<>>, st).stroke,
     stroke_width |-> SvgElement(<<>>, st).stroke_width]

\* SVGDrawing.line, lines 139-141: ['M'] and then point, 'L' for every point
RECURSIVE LineCommands(_)
LineCommands(list) ==
    IF list = <<>> THEN <<Str(<<"M">>)>>
    ELSE LineCommands(SubSeq(list, 1, Len(list) - 1))
         \o <<Array(list[Len(list)]), Str(<<"L">>)>>

\* commands[:-1]
AllButLast(list) == SubSeq(list, 1, Len(list) - 1)

\* PNGDrawing.rectangle: the calls of one pass before the paint
RectangleCalls(point_1, size) ==
    <<Call("rectangle", <<point_1[1], point_1[2], size[1], size[2]>>)>>

\* PNGDrawing.line: the calls of one pass before the paint, for a list that
\* is not empty
LineCalls(list) ==
    <<Call("move_to", list[1])>>
        \o [i \in 1..(Len(list) - 1) |-> Call("line_to", list[i + 1])]

\* The points rectangle and line are called with.
RectanglePoints == {<<(<<0, 0>>), (<<4, 3>>)>>, <<(<<1, 2>>), (<<1, 2>>)>>}

LinePoints ==
    {<<>>, <<(<<1, 2>>)>>, <<(<<0, 0>>), (<<4, 3>>)>>}

\* SVGDrawing.rectangle(point_1, point_2, style)
SvgRectangle ==
    /\ pathPc = "start"
    /\ \E st \in Styles, pts \in RectanglePoints :
        /\ style' = st
        /\ points' = pts
        /\ image' = Append(image, SvgRect(pts[1], ArraySub(pts[2], pts[1]), st))
    /\ shape' = "rectangle"
    /\ backend' = "svg"
    /\ pathPc' = "done"
    /\ UNCHANGED <<text, commands, pathError, context, pass, index, current,
                   start_point, command, is_absolute>>
    /\ UNCHANGED NotDrawingVars

\* SVGDrawing.line(points, style)
SvgLine ==
    /\ pathPc = "start"
    /\ \E st \in Styles, pts \in LinePoints :
        /\ style' = st
        /\ points' = pts
        /\ image' = Append(image, SvgElement(AllButLast(LineCommands(pts)), st))
    /\ shape' = "line"
    /\ backend' = "svg"
    /\ pathPc' = "done"
    /\ UNCHANGED <<text, commands, pathError, context, pass, index, current,
                   start_point, command, is_absolute>>
    /\ UNCHANGED NotDrawingVars

\* PNGDrawing.rectangle(point_1, point_2, style)
PngRectangle ==
    /\ pathPc = "start"
    /\ \E st \in Styles, pts \in RectanglePoints :
        LET size == ArraySub(pts[2], pts[1])
        IN /\ style' = st
           /\ points' = pts
           /\ context' =
                context
                \o (IF st.fill # None
                    THEN RectangleCalls(pts[1], size) \o draw_png_fill(st)
                    ELSE <<>>)
                \o (IF st.stroke # None
                    THEN RectangleCalls(pts[1], size) \o draw_png_stroke(st)
                    ELSE <<>>)
    /\ shape' = "rectangle"
    /\ backend' = "png"
    /\ pathPc' = "done"
    /\ UNCHANGED <<text, commands, pathError, image, pass, index, current,
                   start_point, command, is_absolute>>
    /\ UNCHANGED NotDrawingVars

\* PNGDrawing.line(points, style); points[0] of an empty list raises
\* IndexError in the first pass that runs.
PngLine ==
    /\ pathPc = "start"
    /\ \E st \in Styles, pts \in LinePoints :
        /\ style' = st
        /\ points' = pts
        /\ IF pts = <<>> /\ (st.fill # None \/ st.stroke # None)
           THEN /\ pathError' = "IndexError"
                /\ pathPc' = "raised"
                /\ UNCHANGED context
           ELSE /\ context' =
                    context
                    \o (IF st.fill # None
                        THEN LineCalls(pts) \o draw_png_fill(st) ELSE <<>>)
                    \o (IF st.stroke # None
                        THEN LineCalls(pts) \o draw_png_stroke(st) ELSE <<>>)
                /\ pathPc' = "done"
                /\ UNCHANGED pathError
    /\ shape' = "line"
    /\ backend' = "png"
    /\ UNCHANGED <<text, commands, image, pass, index, current,
                   start_point, command, is_absolute>>
    /\ UNCHANGED NotDrawingVars

(***************************************************************************)
(* feature/building.py: draw_walls (the module-level function)             *)
(*                                                                         *)
(* Colour channels and the numbers added to them are counted in            *)
(* hundredths (0.5 is 50, 1.0 is 100), segment angles in tenths, heights   *)
(* in 1/3300 m, so that 0.25 / BUILDING_SCALE and 0.5 / BUILDING_SCALE are *)
(* the whole numbers 2500 and 5000.  A Color is kept as the channels it    *)
(* was constructed from and the factor its luminance was multiplied by, in *)
(* hundredths.                                                             *)
(***************************************************************************)
BUILDING_SCALE == 33

\* Color(rgb=...) and Color(color)
Color(rgb) == [rgb |-> rgb, luminance |-> 100]

\* color.set_luminance(color.get_luminance() * factor)
set_luminance(color, factor) ==
    [color EXCEPT !.luminance = (color.luminance * factor) \div 100]

Max(a, b) == IF a >= b THEN a ELSE b

Min(a, b) == IF a <= b THEN a ELSE b

\* height <= numerator / BUILDING_SCALE, numerator in hundredths
AtMost(height, numerator) == height * BUILDING_SCALE <= numerator * 3300

\* Lines 225-233: the wall colour of a building under construction.
ConstructionColorClamped(color, angle) ==
    LET color_part == angle * 2
    IN Color([i \in 1..3 |-> Max(Min(color.rgb[i] + color_part, 100), 0)])

ConstructionColor(color, angle) ==
    LET color_part == angle * 2
    IN Color([i \in 1..3 |-> color.rgb[i] + color_part])

\* Lines 234-248: the wall colour of a completed building.
CompletedColorByAngle(color, angle, height) ==
    LET color_part == angle * 2 - 10
    IN Color([i \in 1..3 |-> Max(Min(color.rgb[i] + color_part, 100), 0)])

CompletedColor(color, angle, height) ==
    IF AtMost(height, 25) THEN set_luminance(Color(color.rgb), 70)
    ELSE IF AtMost(height, 50) THEN set_luminance(Color(color.rgb), 85)
    ELSE LET color_part == angle * 2 - 10
         IN Color([i \in 1..3 |-> Max(Min(color.rgb[i] + color_part, 100), 0)])

\* Lines 223-248: local `color` when the path is built.
IlluminatedColor(bld, segment, height, use_building_colors) ==
    LET color == IF use_building_colors THEN bld.wall_color
                 ELSE bld.wall_default_color
    IN IF bld.is_construction THEN ConstructionColor(color, segment.angle)
       ELSE CompletedColor(color, segment.angle, height)

\* color.hex
Hex(color) == <<"hex", color>>

\* Lines 250-267: the quadrangle.
draw_walls(bld, segment, height, shift_1, shift_2, use_building_colors) ==
    LET color == IlluminatedColor(bld, segment, height, use_building_colors)
    IN [d |-> <<"M", ArrayAdd(segment.point_1, shift_1),
                "L", ArrayAdd(segment.point_2, shift_1),
                ArrayAdd(segment.point_2, shift_2),
                ArrayAdd(segment.point_1, shift_2),
                ArrayAdd(segment.point_1, shift_1), "Z">>,
        fill |-> Hex(color), stroke |-> Hex(color), stroke_width |-> 1,
        stroke_linejoin |-> "round"]

(***************************************************************************)
(* Inputs of draw_walls.                                                   *)
(***************************************************************************)
\* Base colours: grey 0.5, the corners of the range and values next to them.
WallBaseColors ==
    {Color(<<50, 50, 50>>), Color(<<0, 50, 100>>), Color(<<95, 5, 100>>)}

\* Segment angles 0.0, 0.3, 0.5, 1.0 and the 3.0 of the scenario.
WallAngles == {0, 3, 5, 10, 30}

\* Heights around 0.25 / BUILDING_SCALE and 0.5 / BUILDING_SCALE, 0 and 8 m.
WallHeights == {0, 2500, 2501, 5000, 5001, 26400}

WallCalls ==
    [is_construction     : BOOLEAN,
     wall_color          : WallBaseColors,
     wall_default_color  : {Color(<<50, 50, 50>>), Color(<<100, 100, 100>>)},
     angle               : WallAngles,
     height              : WallHeights,
     use_building_colors : BOOLEAN]

NoWallCall ==
    [is_construction |-> FALSE, wall_color |-> Color(<<50, 50, 50>>),
     wall_default_color |-> Color(<<50, 50, 50>>), angle |-> 0, height |-> 0,
     use_building_colors |-> FALSE]

\* draw_walls(svg, building, segment, height, shift_1, shift_2,
\*            use_building_colors)
DrawWallsCall ==
    /\ wallPc = "start"
    /\ wallPc' = "drawn"
    /\ wall_svg' =
        Append(wall_svg,
               draw_walls(wall_call,
                          [angle |-> wall_call.angle, point_1 |-> <<0, 0>>,
                           point_2 |-> <<4, 0>>],
                          wall_call.height, <<0, -1>>, <<0, -2>>,
                          wall_call.use_building_colors))
    /\ UNCHANGED wall_call
    /\ UNCHANGED NotWallVars

(***************************************************************************)
(* figure.py: StyledFigure.get_layer, StyledFigure.__lt__                  *)
(*                                                                         *)
(* A float is [nan |-> it is not-a-number, v |-> its value otherwise]:     *)
(* float("nan") parses, and a NaN is unequal to and not less than every    *)
(* float, itself included.                                                 *)
(***************************************************************************)
Number(v) == [nan |-> FALSE, v |-> v]

NaN == [nan |-> TRUE, v |-> 0]

\* float(s): [ok |-> parsed (no ValueError), value |-> the float]
FloatOf(s) ==
    IF s = <<"n", "a", "n">> THEN [ok |-> TRUE, value |-> NaN]
    ELSE [ok |-> ParseFloat(s).ok, value |-> Number(ParseFloat(s).v)]

\* a != b and a < b on floats
FloatNe(a, b) == a.nan \/ b.nan \/ a.v # b.v

FloatLt(a, b) == ~a.nan /\ ~b.nan /\ a.v < b.v

\* StyledFigure.get_layer: a missing key and a ValueError both give 0.0.
get_layer(figure) ==
    IF figure.tags.layer # None /\ FloatOf(figure.tags.layer).ok
    THEN FloatOf(figure.tags.layer).value
    ELSE Number(0)

\* StyledFigure.__lt__
Less(self, other) ==
    IF FloatNe(get_layer(self), get_layer(other))
    THEN FloatLt(get_layer(self), get_layer(other))
    ELSE FloatLt(self.priority, other.priority)

(***************************************************************************)
(* Inputs of the comparisons: the layer tag is missing, a number, not a    *)
(* number at all, or "nan"; line_style.priority is a number.               *)
(***************************************************************************)
MaxPriority == 2

LayerTags ==
    {None, <<"0">>, <<"1">>, <<"-", "1">>, <<"X">>, <<"n", "a", "n">>}

StyledFigures ==
    [tags : [layer : LayerTags], priority : {Number(n) : n \in 1..MaxPriority}]

NoFigures == <<>>

NoLess == <<>>

\* figures[i] < figures[j] for every pair
CompareFigures ==
    /\ orderPc = "start"
    /\ orderPc' = "compared"
    /\ less' = [i \in 1..Len(figures) |->
                   [j \in 1..Len(figures) |-> Less(figures[i], figures[j])]]
    /\ UNCHANGED figures
    /\ UNCHANGED NotOrderVars

(***************************************************************************)
(* mapper.py: Map.draw                                                     *)
(*                                                                         *)
(* Every draw operation made on self.svg is kept as                        *)
(*   [pass |-> the pass that made it, kind, item |-> what was drawn,       *)
(*    extra |-> further arguments].                                        *)
(***************************************************************************)
ROAD_PRIORITY == 40

Drawn(pass_name, kind, item, extra) ==
    [pass |-> pass_name, kind |-> kind, item |-> item, extra |-> extra]

\* Lines 84-153: the passes of Map.draw in the order of its statements.
MapPasses == <<"background", "bottom_figures", "roads", "top_figures", "trees",
             "craters", "buildings", "directions", "nodes", "credits">>

PassRank(pass_name) == CHOOSE i \in 1..Len(MapPasses) : MapPasses[i] = pass_name

\* The statement after a pass.
PassAfterSwapped(pass_name) ==
    CASE pass_name = "top_figures" -> "craters"
      [] pass_name = "craters" -> "trees"
      [] pass_name = "trees" -> "buildings"
      [] pass_name = "credits" -> "done"
      [] OTHER -> MapPasses[PassRank(pass_name) + 1]

PassAfter(pass_name) ==
    IF pass_name = "credits" THEN "done"
    ELSE MapPasses[PassRank(pass_name) + 1]

\* Lines 110, 114, 118, 121, 127, 152: the condition a pass is made under.
PassEnabledAlways(cf, pass_name) == TRUE

PassEnabled(cf, pass_name) ==
    CASE pass_name = "trees" -> cf.draw_trees
      [] pass_name = "craters" -> cf.draw_craters
      [] pass_name = "buildings" -> cf.draw_buildings
      [] pass_name = "directions" -> cf.draw_directions
      [] pass_name = "nodes" -> cf.draw_nodes
      [] pass_name = "credits" -> cf.show_credit
      [] OTHER -> TRUE

\* Lines 91-92: the two lists the sorted figures are split into.
TopFiguresAbove(list) == SelectSeq(list, LAMBDA x : x.priority > ROAD_PRIORITY)

TopFigures(list) == SelectSeq(list, LAMBDA x : x.priority >= ROAD_PRIORITY)

BottomFigures(list) == SelectSeq(list, LAMBDA x : x.priority < ROAD_PRIORITY)

\* Lines 94-99 and 103-108: the figures whose path is not empty are drawn.
DrawFigures(pass_name, list) ==
    LET drawn == SelectSeq(list, LAMBDA x : x.rings > 0)
    IN [i \in 1..Len(drawn) |-> Drawn(pass_name, "figure", drawn[i].id, <<>>)]

\* for item in list: item.draw(...)
DrawEach(pass_name, kind, list) ==
    [i \in 1..Len(list) |-> Drawn(pass_name, kind, list[i], <<>>)]

\* Map.draw_buildings as a whole: the loop over the sorted heights.
RECURSIVE DrawBands(_, _, _, _, _)
DrawBands(blds, walls, tops, previous, roofs) ==
    IF tops = <<>> THEN <<>>
    ELSE BandWalls(blds, walls, Head(tops), previous)
         \o BandRoofs(blds, roofs, Head(tops))
         \o DrawBands(blds, walls, Tail(tops), Head(tops), roofs)

draw_buildings(blds, tops, mode, roofs) ==
    IF mode = "NO" THEN <<>>
    ELSE IF mode = "FLAT" THEN FlatBuildings(blds)
    ELSE <<Element("shade_group", 0, NoPart, 0, 0, 0)>>
         \o DrawBands(blds, SortSegments(WallKeys(blds, Len(blds))),
                      SortedHeights(tops), 0, roofs)

DrawBuildingsPass(sc, cf) ==
    LET elements == draw_buildings(sc.buildings, sc.heights, cf.building_mode,
                                   cf.draw_roofs)
    IN [i \in 1..Len(elements) |->
           Drawn("buildings", elements[i].kind, elements[i].building,
                 <<elements[i]>>)]

\* Lines 128-136: the tracker of occupied places; None without overlap.
OccupiedFor(cf) == IF cf.overlap = 0 THEN None ELSE "Occupied"

\* Line 138: sorted(constructor.points, key=lambda x: -x.priority); the sort
\* is stable.
RECURSIVE InsertPointBeforeEqual(_, _)
InsertPointBeforeEqual(sorted, x) ==
    IF sorted = <<>> THEN <<x>>
    ELSE IF -x.priority <= -sorted[Len(sorted)].priority
         THEN Append(InsertPointBeforeEqual(SubSeq(sorted, 1, Len(sorted) - 1), x),
                     sorted[Len(sorted)])
         ELSE Append(sorted, x)

RECURSIVE InsertPoint(_, _)
InsertPoint(sorted, x) ==
    IF sorted = <<>> THEN <<x>>
    ELSE IF -x.priority < -sorted[Len(sorted)].priority
         THEN Append(InsertPoint(SubSeq(sorted, 1, Len(sorted) - 1), x),
                     sorted[Len(sorted)])
         ELSE Append(sorted, x)

RECURSIVE SortPoints(_)
SortPoints(list) ==
    IF list = <<>> THEN <<>>
    ELSE InsertPoint(SortPoints(SubSeq(list, 1, Len(list) - 1)), list[Len(list)])

\* Lines 138-150: main shapes, extra shapes and texts of the sorted points.
DrawNodes(sc, cf) ==
    LET nodes == SortPoints(sc.points)
        each(kind) == [i \in 1..Len(nodes) |->
                          Drawn("nodes", kind, nodes[i].id, <<OccupiedFor(cf)>>)]
    IN each("main_shapes") \o each("extra_shapes")
       \o (IF ~cf.is_wireframe /\ cf.label_mode # "NO"
           THEN each("texts") ELSE <<>>)

\* Map.draw_credits: every credit line is drawn twice, as an outline and as
\* the text.
DrawCredits(cf) ==
    LET credit_list == <<"Rendering: Map Machine">>
                       \o (IF cf.credit \notin {None, ""}
                           THEN <<"Data: credit">> ELSE <<>>)
    IN [i \in 1..(2 * Len(credit_list)) |->
           Drawn("credits", "text", credit_list[(i + 1) \div 2],
                 <<IF i % 2 = 1 THEN 3 ELSE 1>>)]

\* What a pass draws.
PassOutput(pass_name, sc, cf) ==
    IF ~PassEnabled(cf, pass_name) THEN <<>>
    ELSE CASE pass_name = "background" ->
                <<Drawn("background", "rect", "background_color", <<>>)>>
           [] pass_name = "bottom_figures" ->
                DrawFigures(pass_name, BottomFigures(sc.figures))
           [] pass_name = "roads" -> DrawEach(pass_name, "roads", <<"roads">>)
           [] pass_name = "top_figures" ->
                DrawFigures(pass_name, TopFigures(sc.figures))
           [] pass_name = "trees" -> DrawEach(pass_name, "tree", sc.trees)
           [] pass_name = "craters" -> DrawEach(pass_name, "crater", sc.craters)
           [] pass_name = "buildings" -> DrawBuildingsPass(sc, cf)
           [] pass_name = "directions" ->
                DrawEach(pass_name, "direction_sector", sc.direction_sectors)
           [] pass_name = "nodes" -> DrawNodes(sc, cf)
           [] pass_name = "credits" -> DrawCredits(cf)

\* Map.draw as a whole: what the passes draw, one after the other.
RECURSIVE DrawPasses(_, _, _)
DrawPasses(k, sc, cf) ==
    IF k = 0 THEN <<>>
    ELSE DrawPasses(k - 1, sc, cf) \o PassOutput(MapPasses[k], sc, cf)

draw(sc, cf) == DrawPasses(Len(MapPasses), sc, cf)

(***************************************************************************)
(* Inputs of Map.draw.                                                     *)
(***************************************************************************)
Fig(id, priority, rings) == [id |-> id, priority |-> priority, rings |-> rings]

Pt(id, priority) == [id |-> id, priority |-> priority]

\* constructor.get_sorted_figures(): lists sorted by StyledFigure.__lt__
\* (by layer, then by priority), with priorities around ROAD_PRIORITY, a
\* figure without rings, and a figure of a lower layer and a higher priority
\* in front.
FigureLists ==
    {<<>>,
     <<Fig(1, 39, 1), Fig(2, 40, 1), Fig(3, 41, 1)>>,
     <<Fig(1, 39, 0), Fig(2, 39, 1), Fig(3, 40, 0), Fig(4, 40, 1)>>,
     <<Fig(1, 41, 1), Fig(2, 39, 1), Fig(3, 39, 1)>>,
     <<Fig(1, 39, 1), Fig(2, 39, 1), Fig(3, 40, 1), Fig(4, 39, 0), Fig(5, 40, 1)>>}

\* constructor.points, in any order of priorities, ties included.
PointLists ==
    {<<>>,
     <<Pt(1, 1), Pt(2, 2)>>,
     <<Pt(1, 2), Pt(2, 1), Pt(3, 2)>>}

\* One building of 10 m over the bands topping at 5 m and 10 m.
MapBuildings == <<BuildingAt(1, <<[NoTags EXCEPT !.height = <<4>>], <<0, 1>>>>)>>

Scenes ==
    [figures           : FigureLists,
     trees             : {<<1, 2>>},
     craters           : {<<1>>},
     buildings         : {MapBuildings},
     heights           : {{10, 20}},
     direction_sectors : {<<1>>},
     points            : PointLists]

Configs ==
    [draw_trees      : BOOLEAN,
     draw_craters    : BOOLEAN,
     draw_buildings  : BOOLEAN,
     draw_directions : BOOLEAN,
     draw_nodes      : BOOLEAN,
     show_credit     : BOOLEAN,
     building_mode   : {"NO", "FLAT", "ISOMETRIC"},
     draw_roofs      : {TRUE},
     overlap         : {0, 12},
     is_wireframe    : {FALSE},
     label_mode      : {"NO", "MAIN"},
     credit          : {None, "OpenStreetMap contributors"}]

NoScene ==
    [figures |-> <<>>, trees |-> <<>>, craters |-> <<>>, buildings |-> <<>>,
     heights |-> {}, direction_sectors |-> <<>>, points |-> <<>>]

NoConfig ==
    [draw_trees |-> FALSE, draw_craters |-> FALSE, draw_buildings |-> FALSE,
     draw_directions |-> FALSE, draw_nodes |-> FALSE, show_credit |-> FALSE,
     building_mode |-> "NO", draw_roofs |-> TRUE, overlap |-> 0,
     is_wireframe |-> FALSE, label_mode |-> "NO", credit |-> None]

\* A pass of Map.draw: what it draws is added to self.svg, and the statement
\* after it is next.
MapPass(pass_name) ==
    /\ map_svg' = map_svg \o PassOutput(pass_name, scene, config)
    /\ mapPc' = PassAfter(pass_name)
    /\ occupied' = IF pass_name = "nodes" /\ PassEnabled(config, pass_name)
                   THEN OccupiedFor(config) ELSE occupied
    /\ UNCHANGED <<scene, config>>
    /\ UNCHANGED NotMapVars

\* Map.draw(constructor) is called: line 86, the background.
MapDrawBackground ==
    /\ mapPc = "start"
    /\ MapPass("background")

\* Lines 94-99.
MapDrawBottomFigures ==
    /\ mapPc = "bottom_figures"
    /\ MapPass("bottom_figures")

\* Line 101.
MapDrawRoads ==
    /\ mapPc = "roads"
    /\ MapPass("roads")

\* Lines 103-108.
MapDrawTopFigures ==
    /\ mapPc = "top_figures"
    /\ MapPass("top_figures")

\* Lines 110-112.
MapDrawTrees ==
    /\ mapPc = "trees"
    /\ MapPass("trees")

\* Lines 114-116.
MapDrawCraters ==
    /\ mapPc = "craters"
    /\ MapPass("craters")

\* Lines 118-119.
MapDrawBuildings ==
    /\ mapPc = "buildings"
    /\ MapPass("buildings")

\* Lines 121-123.
MapDrawDirections ==
    /\ mapPc = "directions"
    /\ MapPass("directions")

\* Lines 127-150.
MapDrawNodes ==
    /\ mapPc = "nodes"
    /\ MapPass("nodes")

\* Lines 152-153.
MapDrawCredits ==
    /\ mapPc = "credits"
    /\ MapPass("credits")

(***************************************************************************)
(* drawing.py: SVGDrawing.write, PNGDrawing.write                          *)
(***************************************************************************)
MaxPieces == 4

\* Where the file system fails: nowhere, at opening the file (an unwritable
\* path), or at writing the piece `piece` of the image.
Fault(at, piece) == [at |-> at, piece |-> piece]

NoFault == Fault("none", 0)

FaultsOf(n) ==
    {NoFault, Fault("open", 0)} \cup {Fault("write", k) : k \in 1..n}

\* The fault hits the write of the next piece.
FailsNow == fault.at = "write" /\ fault.piece = written + 1

\* Line 156, the end of the `with` block: the file is closed on the way out,
\* whether the block ended or raised.
CloseOnSuccess(handle, failed) == IF failed THEN handle ELSE "closed"

Close(handle, failed) == "closed"

\* Line 156: self.file_path.open("w+", encoding="utf-8"); a failure to open
\* leaves write with OSError and no handle.
SvgOpen ==
    /\ writePc = "start"
    /\ writer = "SVGDrawing"
    /\ opens' = opens + 1
    /\ IF fault.at = "open"
       THEN /\ writePc' = "raised"
            /\ writeError' = "OSError"
            /\ UNCHANGED output_file
       ELSE /\ writePc' = "writing"
            /\ output_file' = "open"
            /\ UNCHANGED writeError
    /\ UNCHANGED <<writer, pieces, fault, written>>
    /\ UNCHANGED NotWriteVars

\* Line 157: self.image.write(output_file) writes the next piece.
SvgImageWrite ==
    /\ writePc = "writing"
    /\ written < pieces
    /\ ~FailsNow
    /\ written' = written + 1
    /\ UNCHANGED <<writePc, writer, pieces, fault, output_file, writeError, opens>>
    /\ UNCHANGED NotWriteVars

\* Line 157: writing the next piece fails; the exception leaves the block.
SvgImageWriteFails ==
    /\ writePc = "writing"
    /\ FailsNow
    /\ writePc' = "failing"
    /\ writeError' = "OSError"
    /\ UNCHANGED <<writer, pieces, fault, output_file, written, opens>>
    /\ UNCHANGED NotWriteVars

\* Line 156: the `with` block is left; the file is closed, and write returns
\* or the exception goes on to the caller.
SvgExit ==
    /\ \/ writePc = "writing" /\ written = pieces
       \/ writePc = "failing"
    /\ output_file' = Close(output_file, writePc = "failing")
    /\ writePc' = IF writePc = "failing" THEN "raised" ELSE "returned"
    /\ UNCHANGED <<writer, pieces, fault, written, writeError, opens>>
    /\ UNCHANGED NotWriteVars

\* Lines 288-290: self.surface.write_to_png(str(self.file_path)).  write is
\* given the path, not a handle: the library opens the file, writes it and
\* closes it within the call, and reports a failure as an exception, which
\* write does not catch.
PngWrite ==
    /\ writePc = "start"
    /\ writer = "PNGDrawing"
    /\ opens' = opens + 1
    /\ output_file' = IF fault.at = "open" THEN output_file ELSE "closed"
    /\ written' = IF fault.at = "write" THEN fault.piece - 1
                  ELSE IF fault.at = "open" THEN written ELSE pieces
    /\ writeError' = IF fault.at = "none" THEN None ELSE "OSError"
    /\ writePc' = IF fault.at = "none" THEN "returned" ELSE "raised"
    /\ UNCHANGED <<writer, pieces, fault>>
    /\ UNCHANGED NotWriteVars

\* The calls of write: the drawing, its image and what the file system does.
WriteCalls ==
    {[writer |-> w, pieces |-> n, fault |-> f] :
        w \in {"SVGDrawing", "PNGDrawing"}, n \in 0..MaxPieces,
        f \in FaultsOf(MaxPieces)}

ValidWriteCalls == {c \in WriteCalls : c.fault.piece <= c.pieces}

NoWriteCall == [writer |-> "none", pieces |-> 0, fault |-> NoFault]

(***************************************************************************)
(* main.py: BoundaryBox.convert                                            *)
(*                                                                         *)
(* Coordinates are kept in tenths of a degree.                             *)
(***************************************************************************)
\* map_machine.geometry.boundary_box: 0.5 degrees each.
LATITUDE_MAX_DIFFERENCE == 5

LONGITUDE_MAX_DIFFERENCE == 5

\* float(elem) for a str of the characters of the model: "nan" gives the
\* NaN; an optional "-", digits and an optional "." with one digit after it
\* give the number; any other str raises ValueError.
\* [ok |-> parsed, value |-> the float]
BoxFloat(elem) ==
    LET parts == Split(elem, ".")
        whole == ParseFloat(parts[1])
        minus == elem # <<>> /\ elem[1] = "-"
    IN IF elem = <<"n", "a", "n">> THEN [ok |-> TRUE, value |-> NaN]
       ELSE IF Len(parts) = 1 /\ whole.ok
            THEN [ok |-> TRUE, value |-> Number(10 * whole.v)]
       ELSE IF /\ Len(parts) = 2 /\ whole.ok
               /\ Len(parts[2]) = 1 /\ parts[2][1] \in Digits
            THEN [ok |-> TRUE,
                  value |-> Number(IF minus
                                   THEN 10 * whole.v - DigitValue(parts[2][1])
                                   ELSE 10 * whole.v + DigitValue(parts[2][1]))]
       ELSE [ok |-> FALSE, value |-> Number(0)]

\* a >= b, a > b and a - b on floats
FloatGe(a, b) == ~a.nan /\ ~b.nan /\ a.v >= b.v

FloatGt(a, b) == ~a.nan /\ ~b.nan /\ a.v > b.v

FloatMinus(a, b) == IF a.nan \/ b.nan THEN NaN ELSE Number(a.v - b.v)

\* Lines 78-85: the checks of the four numbers.
BoxChecks(boundary_box) ==
    LET left == boundary_box[1]
        bottom == boundary_box[2]
        right == boundary_box[3]
        top == boundary_box[4]
    IN IF FloatGe(left, right)
       THEN Raised("Negative horizontal boundary.", <<>>)
       ELSE IF FloatGe(bottom, top)
       THEN Raised("Negative vertical boundary.", <<>>)
       ELSE IF \/ FloatGt(FloatMinus(right, left), Number(LONGITUDE_MAX_DIFFERENCE))
               \/ FloatGt(FloatMinus(top, bottom), Number(LATITUDE_MAX_DIFFERENCE))
       THEN Raised("Boundary box is too big.", <<>>)
       ELSE Raised(None, boundary_box)

\* BoundaryBox.convert(value, param, ctx); self.fail raises BadParameter.
convert(option) ==
    LET elems == Split(option, ",")
    IN IF Len(elems) # 4 THEN Raised("BadParameter", <<>>)
       ELSE IF \E i \in 1..4 : ~BoxFloat(elems[i]).ok
       THEN Raised("BadParameter", <<>>)
       ELSE BoxChecks([i \in 1..4 |-> BoxFloat(elems[i]).value])

\* The values of the option: one to five elements with commas between.
BoxElements ==
    {<<"0">>, <<"-", "0", ".", "1">>, <<"0", ".", "1">>, <<"0", ".", "5">>,
     <<"0", ".", "6">>, <<"-", "2", "0">>, <<"2", "0">>, <<"n", "a", "n">>,
     <<"w", "r", "o", "n", "g">>, <<>>}

RECURSIVE JoinWith(_, _)
JoinWith(list, sep) ==
    IF Len(list) = 0 THEN <<>>
    ELSE IF Len(list) = 1 THEN list[1]
    ELSE list[1] \o <<sep>> \o JoinWith(Tail(list), sep)

BoxTexts ==
    {JoinWith(list, ",") :
        list \in [1..4 -> BoxElements] \cup [1..1 -> BoxElements]
                 \cup [1..3 -> {<<"0">>, <<"0", ".", "1">>}]
                 \cup [1..5 -> {<<"0">>, <<"0", ".", "1">>}]}

\* BoundaryBox.convert is called on the value of the option.
BoundaryBoxConvert ==
    /\ boxPc = "start"
    /\ box_result' = convert(box_value)
    /\ boxPc' = IF convert(box_value).error = None THEN "returned" ELSE "raised"
    /\ UNCHANGED box_value
    /\ UNCHANGED NotBoxVars

(***************************************************************************)
(* workspace.py: Workspace.find_scheme_path; mapper.py: render_map         *)
(*                                                                         *)
(* A path is <<directory, name>>; the directory of a relative path is "."  *)
(***************************************************************************)
\* Path(identifier)
Path(name) == <<".", name>>

\* SCHEME_PATH / (identifier + ".yml")
SchemeFile(identifier) == <<"scheme", identifier \o ".yml">>

DEFAULT_SCHEME_PATH == <<"scheme", "default.yml">>

\* Workspace.find_scheme_path(identifier), with the files there are.
find_scheme_path(identifier, there) ==
    IF identifier = "" THEN Raised(None, <<DEFAULT_SCHEME_PATH>>)
    ELSE IF SchemeFile(identifier) \in there
         THEN Raised(None, <<SchemeFile(identifier)>>)
    ELSE IF Path(identifier) \in there
         THEN Raised(None, <<Path(identifier)>>)
    ELSE Raised("FileNotFoundError", <<>>)

\* Lines 304-306: the scheme is looked for; the exception of
\* find_scheme_path leaves render_map, a None would raise ValueError.
RenderFindScheme ==
    /\ renderPc = "start"
    /\ LET found == find_scheme_path(render_args.scheme, is_file)
       IN IF found.error # None
          THEN /\ renderPc' = "raised"
               /\ render_error' = found.error
               /\ UNCHANGED scheme_path
          ELSE IF found.result = <<>>
          THEN /\ renderPc' = "raised"
               /\ render_error' = "Scheme not found."
               /\ UNCHANGED scheme_path
          ELSE /\ renderPc' = "box"
               /\ scheme_path' = found.result
               /\ UNCHANGED render_error
    /\ UNCHANGED <<render_args, is_file, network, boundary_box_obj,
                   input_file_names, requests, osm_data>>
    /\ UNCHANGED NotRenderVars

\* Lines 329-344: the boundary box is the one given, else the one around
\* the coordinates.
RenderBoundaryBox ==
    /\ renderPc = "box"
    /\ IF render_args.boundary_box # <<>>
       THEN /\ boundary_box_obj' = <<"BoundaryBox(*boundary_box)">>
            /\ renderPc' = "files"
            /\ UNCHANGED render_error
       ELSE IF render_args.coordinates # <<>>
       THEN IF Len(render_args.coordinates) # 2
            THEN /\ renderPc' = "raised"
                 /\ render_error' = "Wrong coordinates format."
                 /\ UNCHANGED boundary_box_obj
            ELSE /\ boundary_box_obj' = <<"BoundaryBox.from_coordinates">>
                 /\ renderPc' = "files"
                 /\ UNCHANGED render_error
       ELSE /\ renderPc' = "files"
            /\ UNCHANGED <<boundary_box_obj, render_error>>
    /\ UNCHANGED <<render_args, is_file, network, scheme_path,
                   input_file_names, requests, osm_data>>
    /\ UNCHANGED NotRenderVars

\* The cache file of a boundary box.
CacheFile(box) == <<"cache", box[1] \o ".osm">>

\* Lines 348-354: without input files and with a boundary box the data is
\* downloaded into the cache file, which becomes the input; else the
\* critical message is logged and the process exits with 1.
RenderDetermineFiles ==
    /\ renderPc = "files"
    /\ IF input_file_names = <<>> /\ boundary_box_obj # <<>>
       THEN /\ requests' = Append(requests, CacheFile(boundary_box_obj))
            /\ IF network = "ok"
               THEN /\ is_file' = is_file \cup {CacheFile(boundary_box_obj)}
                    /\ input_file_names' = <<CacheFile(boundary_box_obj)>>
                    /\ renderPc' = "load"
                    /\ UNCHANGED render_error
               ELSE /\ renderPc' = "raised"
                    /\ render_error' = network
                    /\ UNCHANGED <<is_file, input_file_names>>
       ELSE /\ renderPc' = "exited"
            /\ render_error'
                   = "Specify either --input, or --boundary-box, or --coordinates."
            /\ UNCHANGED <<is_file, input_file_names, requests>>
    /\ UNCHANGED <<render_args, network, scheme_path, boundary_box_obj, osm_data>>
    /\ UNCHANGED NotRenderVars

\* Lines 360-367: the input files are parsed in order; one that is no file
\* stops the rendering.
RenderLoad ==
    /\ renderPc = "load"
    /\ IF \E i \in 1..Len(input_file_names) : input_file_names[i] \notin is_file
       THEN LET first == CHOOSE i \in 1..Len(input_file_names) :
                             /\ input_file_names[i] \notin is_file
                             /\ \A j \in 1..(i - 1) : input_file_names[j] \in is_file
            IN /\ osm_data' = SubSeq(input_file_names, 1, first - 1)
               /\ renderPc' = "raised"
               /\ render_error' = "No such file"
       ELSE /\ osm_data' = input_file_names
            /\ renderPc' = "draw"
            /\ UNCHANGED render_error
    /\ UNCHANGED <<render_args, is_file, network, scheme_path, boundary_box_obj,
                   input_file_names, requests>>
    /\ UNCHANGED NotRenderVars

\* Lines 369-398: the map is constructed, drawn and written.
RenderDraw ==
    /\ renderPc = "draw"
    /\ renderPc' = "done"
    /\ UNCHANGED <<render_args, is_file, network, scheme_path, boundary_box_obj,
                   input_file_names, requests, osm_data, render_error>>
    /\ UNCHANGED NotRenderVars

\* The calls of render_map and the files there are.
SchemeIdentifiers == {"", "default", "custom", "my.yml", "missing"}

FileSystems ==
    {{DEFAULT_SCHEME_PATH} \cup more :
        more \in SUBSET {SchemeFile("custom"), Path("my.yml"), Path("custom"),
                         Path("a.osm")}}

RenderArgs ==
    [scheme           : SchemeIdentifiers,
     input_file_names : {<<>>, <<Path("a.osm")>>, <<Path("a.osm"), Path("b.json")>>},
     boundary_box     : {<<>>, <<0, 0, 1, 1>>},
     coordinates      : {<<>>, <<0, 0>>, <<0, 0, 0>>}]

NoRenderArgs ==
    [scheme |-> "", input_file_names |-> <<>>, boundary_box |-> <<>>,
     coordinates |-> <<>>]

(***************************************************************************)
(* util.py: MinMax                                                         *)
(***************************************************************************)
MaxUpdates == 4

\* `not x` for an attribute that is None or a number.
Not(x) == x = <<>> \/ x[1] = 0

\* Lines 46-47: the attributes after update(v).
UpdatedMin(low, v) == IF Not(low) \/ v < low[1] THEN <<v>> ELSE low

UpdatedMax(high, v) == IF Not(high) \/ v > high[1] THEN <<v>> ELSE high

\* The values passed to update.
MinMaxValues == {-2, -1, 0, 1, 2}

\* MinMax.update(v)
MinMaxUpdate ==
    /\ minmaxPc \in {"fresh", "updated"}
    /\ Len(passed) < MaxUpdates
    /\ \E v \in MinMaxValues :
           /\ min_' = UpdatedMin(min_, v)
           /\ max_' = UpdatedMax(max_, v)
           /\ passed' = Append(passed, v)
    /\ minmaxPc' = "updated"
    /\ UNCHANGED NotMinMaxVars

(***************************************************************************)
(* osm/osm_getter.py: get_osm                                              *)
(***************************************************************************)
MaxCalls == 4

\* content.startswith(b"<")
StartsWith(content, prefix) == Len(content) > 0 /\ content[1] = prefix

\* Line 69: the response is taken for OSM data.
AcceptedAlways(content) == TRUE

Accepted(content) == StartsWith(content, "<")

\* What get_data does: it raises NetworkError (too many attempts) or
\* returns the data of the response.
Reply(raised, data) == [raised |-> raised, data |-> data]

TooManyNodes == <<"Y", "o", "u">>

Replies ==
    {Reply(TRUE, <<>>)}
        \cup {Reply(FALSE, data) :
                 data \in {<<"<", "a", ">">>, <<"<", "b", ">">>, TooManyNodes,
                           <<"e", "<">>, <<>>}}

\* The record of a call.
LastCall(to_update, before, requested, reply, error, result) ==
    [to_update |-> to_update, cache_before |-> before, requested |-> requested,
     response |-> reply, error |-> error, result |-> result]

NoCall == LastCall(FALSE, <<>>, FALSE, Reply(FALSE, <<>>), None, <<>>)

\* Lines 60-62: get_osm(boundary_box, cache_file_path, to_update) with
\* to_update false and the cache file there: its content is returned.
GetOsmFromCache ==
    /\ osmPc \in {"start", "called"}
    /\ osm_calls < MaxCalls
    /\ cache # <<>>
    /\ last' = LastCall(FALSE, cache, FALSE, Reply(FALSE, <<>>), None, cache[1])
    /\ osm_calls' = osm_calls + 1
    /\ osmPc' = "called"
    /\ UNCHANGED <<cache, cache_written>>
    /\ UNCHANGED NotOsmVars

\* Lines 64-85: get_osm with to_update true or no cache file: the data is
\* requested; a response that is not OSM data raises NetworkError, any
\* other is written to the cache file and returned.
GetOsmFromNetwork ==
    /\ osmPc \in {"start", "called"}
    /\ osm_calls < MaxCalls
    /\ \E to_update \in BOOLEAN, reply \in Replies :
           /\ to_update \/ cache = <<>>
           /\ IF reply.raised \/ ~Accepted(reply.data)
              THEN /\ last' = LastCall(to_update, cache, TRUE, reply,
                                       "NetworkError", <<>>)
                   /\ UNCHANGED <<cache, cache_written>>
              ELSE /\ last' = LastCall(to_update, cache, TRUE, reply, None,
                                       reply.data)
                   /\ cache' = <<reply.data>>
                   /\ cache_written' = TRUE
    /\ osm_calls' = osm_calls + 1
    /\ osmPc' = "called"
    /\ UNCHANGED NotOsmVars

\* The cache file before the first call: none, or one of an earlier run.
CacheFiles == {<<>>, <<(<<"<", "o", ">">>)>>}

(***************************************************************************)
(* Inputs of the ring operations.                                          *)
(***************************************************************************)
MaxRingLen == 4

\* Node coordinates: four collinear points and one off the line, so that
\* clockwise, counter-clockwise and zero-area rings all occur.
RingPoints == {<<1, 1>>, <<4, 4>>, <<6, 6>>, <<7, 7>>, <<7, 1>>}

SquareRing == <<(<<0, 0>>), (<<10, 0>>), (<<10, 10>>), (<<0, 10>>)>>

\* A way has at least two nodes.
Rings == UNION {[1..n -> RingPoints] : n \in 2..MaxRingLen} \cup {SquareRing}

\* The ring lists a Figure is built from, for the ring under test.
RingLists(poly) ==
    {<<>>, <<poly>>, <<poly, Reverse(poly)>>, <<SquareRing, poly>>}

(***************************************************************************)
(* The state after construction.  Every specification starts one component *)
(* (`on`) with its inputs drawn from the bounded sets above and leaves the *)
(* other components idle.                                                  *)
(***************************************************************************)
Pc(on, component) == IF on = component THEN "start" ELSE "idle"

Inputs(on, component, set, idle) == IF on = component THEN set ELSE {idle}

StartOf(on) ==
    /\ ringPc = Pc(on, "ring")
    /\ polygon \in Inputs(on, "ring", Rings, <<>>)
    /\ count = 0
    /\ clockwise = None
    /\ made = None
    /\ made_twice = None
    /\ arg_inners = <<>>
    /\ arg_outers = <<>>
    /\ inners = <<>>
    /\ outers = <<>>
    /\ bldPc = Pc(on, "building")
    /\ tags \in Inputs(on, "building", TagSpace, NoTags)
    /\ building = None
    /\ drawPc = Pc(on, "draw")
    /\ buildings \in Inputs(on, "draw", BuildingLists, <<>>)
    /\ heights \in Inputs(on, "draw", SUBSET BandTops, {})
    /\ building_mode \in Inputs(on, "draw", {"NO", "FLAT", "ISOMETRIC"}, "NO")
    /\ draw_roofs \in Inputs(on, "draw", BOOLEAN, FALSE)
    /\ svg = <<>>
    /\ building_shade = <<>>
    /\ sorted_walls = <<>>
    /\ bands = <<>>
    /\ previous_height = 0
    /\ pathPc = Pc(on, "path")
    /\ backend = "none"
    /\ text \in Inputs(on, "path", PathTexts, <<>>)
    /\ commands = <<>>
    /\ pathError = None
    /\ style = NoStyle
    /\ image = <<>>
    /\ context = <<>>
    /\ pass = "none"
    /\ PathLocalsStart
    /\ wallPc = Pc(on, "wall")
    /\ wall_call \in Inputs(on, "wall", WallCalls, NoWallCall)
    /\ wall_svg = <<>>
    /\ orderPc = Pc(on, "order")
    /\ figures \in Inputs(on, "order", [1..3 -> StyledFigures], NoFigures)
    /\ less = NoLess
    /\ shape = "none"
    /\ points = <<>>
    /\ mapPc = Pc(on, "map")
    /\ scene \in Inputs(on, "map", Scenes, NoScene)
    /\ config \in Inputs(on, "map", Configs, NoConfig)
    /\ map_svg = <<>>
    /\ occupied = None
    /\ writePc = Pc(on, "write")
    /\ \E call \in Inputs(on, "write", ValidWriteCalls, NoWriteCall) :
           /\ writer = call.writer
           /\ pieces = call.pieces
           /\ fault = call.fault
    /\ output_file = "none"
    /\ written = 0
    /\ writeError = None
    /\ opens = 0
    /\ boxPc = Pc(on, "box")
    /\ box_value \in Inputs(on, "box", BoxTexts, <<>>)
    /\ box_result = Raised(None, <<>>)
    /\ renderPc = Pc(on, "render")
    /\ render_args \in Inputs(on, "render", RenderArgs, NoRenderArgs)
    /\ is_file \in Inputs(on, "render", FileSystems, {})
    /\ network \in Inputs(on, "render", {"ok", "NetworkError"}, "ok")
    /\ scheme_path = <<>>
    /\ boundary_box_obj = <<>>
    /\ input_file_names = render_args.input_file_names
    /\ requests = <<>>
    /\ osm_data = <<>>
    /\ render_error = None
    /\ minmaxPc = IF on = "minmax" THEN "fresh" ELSE "idle"
    /\ min_ = <<>>
    /\ max_ = <<>>
    /\ passed = <<>>
    /\ osmPc = Pc(on, "osm")
    /\ cache \in Inputs(on, "osm", CacheFiles, <<>>)
    /\ cache_written = FALSE
    /\ osm_calls = 0
    /\ last = NoCall

RingInit == StartOf("ring")

BldInit == StartOf("building")

DrawInit == StartOf("draw")

PathInit == StartOf("path")

WallInit == StartOf("wall")

OrderInit == StartOf("order")

MapInit == StartOf("map")

WriteInit == StartOf("write")

\* is_clockwise(polygon)
IsClockwiseCall ==
    /\ ringPc = "start"
    /\ ringPc' = "is_clockwise"
    /\ count' = is_clockwise_count(polygon)
    /\ clockwise' = is_clockwise(polygon)
    /\ UNCHANGED <<polygon, made, made_twice, arg_inners, arg_outers,
                   inners, outers>>
    /\ UNCHANGED NotRingVars

\* make_clockwise(polygon)
MakeClockwiseCall ==
    /\ ringPc = "start"
    /\ ringPc' = "made"
    /\ made' = make_clockwise(polygon)
    /\ UNCHANGED <<polygon, count, clockwise, made_twice, arg_inners,
                   arg_outers, inners, outers>>
    /\ UNCHANGED NotRingVars

\* make_clockwise applied to the result of make_clockwise
MakeClockwiseAgain ==
    /\ ringPc = "made"
    /\ ringPc' = "made_twice"
    /\ made_twice' = make_clockwise(made)
    /\ UNCHANGED <<polygon, count, clockwise, made, arg_inners, arg_outers,
                   inners, outers>>
    /\ UNCHANGED NotRingVars

\* Figure(tags, inners, outers)
FigureNew ==
    /\ ringPc = "start"
    /\ \E inn \in RingLists(polygon), out \in RingLists(polygon) :
        /\ arg_inners' = inn
        /\ arg_outers' = out
        /\ inners' = FigureInners(inn, out)
        /\ outers' = FigureOuters(inn, out)
    /\ ringPc' = "figure"
    /\ UNCHANGED <<polygon, count, clockwise, made, made_twice>>
    /\ UNCHANGED NotRingVars

RingNext ==
    \/ IsClockwiseCall
    \/ MakeClockwiseCall
    \/ MakeClockwiseAgain
    \/ FigureNew

RingSpec == RingInit /\ [][RingNext]_vars

BuildingNext == BuildingNew

BuildingSpec == BldInit /\ [][BuildingNext]_vars

DrawNext ==
    \/ DrawBuildingsNo
    \/ DrawBuildingsFlat
    \/ DrawBuildingsShade
    \/ DrawBand
    \/ DrawBuildingsReturn

DrawSpec == DrawInit /\ [][DrawNext]_vars

PathNext ==
    \/ ParsePath
    \/ CommandsGiven
    \/ SvgPath
    \/ PngPath
    \/ DoPathCommand
    \/ DoPathMoveLine
    \/ DoPathCurve
    \/ DoPathAxis
    \/ DoPathUnsupported
    \/ DoPathReturn
    \/ SvgRectangle
    \/ SvgLine
    \/ PngRectangle
    \/ PngLine

PathSpec == PathInit /\ [][PathNext]_vars

WallNext == DrawWallsCall

WallSpec == WallInit /\ [][WallNext]_vars

OrderNext == CompareFigures

OrderSpec == OrderInit /\ [][OrderNext]_vars

MapNext ==
    \/ MapDrawBackground
    \/ MapDrawBottomFigures
    \/ MapDrawRoads
    \/ MapDrawTopFigures
    \/ MapDrawTrees
    \/ MapDrawCraters
    \/ MapDrawBuildings
    \/ MapDrawDirections
    \/ MapDrawNodes
    \/ MapDrawCredits

MapSpec == MapInit /\ [][MapNext]_vars

WriteNext ==
    \/ SvgOpen
    \/ SvgImageWrite
    \/ SvgImageWriteFails
    \/ SvgExit
    \/ PngWrite

WriteSpec == WriteInit /\ [][WriteNext]_vars

BoxInit == StartOf("box")

BoxNext == BoundaryBoxConvert

BoxSpec == BoxInit /\ [][BoxNext]_vars

RenderInit == StartOf("render")

RenderNext ==
    \/ RenderFindScheme
    \/ RenderBoundaryBox
    \/ RenderDetermineFiles
    \/ RenderLoad
    \/ RenderDraw

RenderSpec == RenderInit /\ [][RenderNext]_vars

MinMaxInit == StartOf("minmax")

MinMaxNext == MinMaxUpdate

MinMaxSpec == MinMaxInit /\ [][MinMaxNext]_vars

OsmInit == StartOf("osm")

OsmNext ==
    \/ GetOsmFromCache
    \/ GetOsmFromNetwork

OsmSpec == OsmInit /\ [][OsmNext]_vars

(***************************************************************************)
(* Claims about the path mini-language.                                    *)
(***************************************************************************)

\* The end points of the move_to and line_to calls made on the context.
RECURSIVE PenPoints(_)
PenPoints(calls) ==
    IF calls = <<>> THEN <<>>
    ELSE (IF Head(calls).op \in {"move_to", "line_to"}
          THEN <<Head(calls).args>> ELSE <<>>) \o PenPoints(Tail(calls))

\* (0,0) -> (10,0) -> (10,10) -> (0,0)
ScenarioPoints == <<(<<0, 0>>), (<<10, 0>>), (<<10, 10>>), (<<0, 0>>)>>

\* M (0,0) L (10,0) L (10,10) Z
ScenarioCommands ==
    <<Str(<<"M">>), Array(<<0, 0>>), Str(<<"L">>), Array(<<10, 0>>),
      Str(<<"L">>), Array(<<10, 10>>), Str(<<"Z">>)>>

\* The passes PNGDrawing.path makes for a style.
Passes(st) ==
    (IF st.fill # None THEN 1 ELSE 0) + (IF st.stroke # None THEN 1 ELSE 0)

\* C1 (as claimed): parsing and executing "M 0,0 L 10,0 L 10,10 Z" raises no
\* error and yields the points (0,0), (10,0), (10,10), (0,0): as the path
\* data of the element on the SVG backend, as the pen positions of every
\* pass on the PNG backend.
C1_ScenarioPath ==
    (text = ScenarioText /\ shape = "none") =>
        /\ pathPc # "raised"
        /\ pathPc \in {"parsed", "do_path", "done"} => commands = ScenarioCommands
        /\ (pathPc = "done" /\ backend = "svg") =>
            (Len(image) = 1 /\ image[1].d = ScenarioCommands)
        /\ (pathPc = "done" /\ backend = "png") =>
            PenPoints(context) =
                IF Passes(style) = 0 THEN <<>>
                ELSE IF Passes(style) = 1 THEN ScenarioPoints
                ELSE ScenarioPoints \o ScenarioPoints

\* The element _do_path is about to execute is an operand of a MoveTo.
AtMoveTo == InDoPath /\ commands[index].t # "str" /\ command = <<"m">>

\* The element _do_path is about to execute is a Close.
AtClose ==
    InDoPath /\ commands[index].t = "str" /\ Lower(commands[index].s) = <<"z">>

\* No subpath is open: start_point holds no point.
NoSubpath(start) == start.none \/ start.v = <<>>

\* C2 (as claimed): a MoveTo executed while no subpath is open records its
\* target as the subpath start; a Close draws a line to the subpath start,
\* makes it the current point and clears the open-subpath marker.
C2_SubpathStart ==
    [][/\ (AtMoveTo /\ NoSubpath(start_point)) =>
            (pathPc' = "do_path" => start_point' = PointValue(current'))
       /\ AtClose =>
            /\ pathPc' = "do_path"
            /\ ~NoSubpath(start_point)
            /\ context' = Append(context, Call("line_to", start_point.v))
            /\ current' = start_point.v
            /\ NoSubpath(start_point')]_vars

(***************************************************************************)
(* Claims about ring winding.                                              *)
(***************************************************************************)

\* The sum of the winding test as the specification writes it: over the
\* vertices i = 1..k in order, (x[next] - x[i]) * (y[next] + y[i]) with next
\* wrapping from the last vertex to the first, in the program's arithmetic.
RECURSIVE WindingSum(_, _)
WindingSum(poly, k) ==
    IF k = 0 THEN 0
    ELSE LET nxt == (k % Len(poly)) + 1
         IN FAdd(WindingSum(poly, k - 1),
                 FMul(FSub(poly[nxt][1], poly[k][1]),
                      FAdd(poly[nxt][2], poly[k][2])))

\* C3 (as claimed): a Figure built from non-empty inner and outer ring lists
\* has every inner ring clockwise and every outer ring counter-clockwise,
\* degenerate rings included.
C3_FigureWinding ==
    (ringPc = "figure" /\ arg_inners # <<>> /\ arg_outers # <<>>) =>
        /\ \A i \in 1..Len(inners) : is_clockwise(inners[i])
        /\ \A i \in 1..Len(outers) : ~is_clockwise(outers[i])

\* C4 (as claimed): make_clockwise returns a ring that is_clockwise accepts,
\* and applying make_clockwise twice gives the same vertex sequence as
\* applying it once.
C4_MakeClockwise ==
    /\ ringPc \in {"made", "made_twice"} => is_clockwise(made)
    /\ ringPc = "made_twice" => made_twice = made

WallDraws(k, part, t) ==
    Cardinality({i \in 1..Len(svg) :
        /\ svg[i].kind = "wall"
        /\ svg[i].building = k
        /\ svg[i].part = part
        /\ svg[i].top = t})

\* The indices of the roof elements of building k.
RoofDraws(k) ==
    {i \in 1..Len(svg) : svg[i].kind = "roof" /\ svg[i].building = k}

\* The top of the band below the one topping at t: the next lower height,
\* or 0 for the lowest band.
BandBottom(t) ==
    IF \E h \in heights : h < t
    THEN CHOOSE h \in heights : h < t /\ \A g \in heights : g < t => g <= h
    ELSE 0

\* Every wall quad of the output belongs to a band and an existing segment
\* and spans the band from its bottom to its top; every segment has one wall
\* quad in each band whose top t has min_height < t <= height and none in
\* the other bands.
WallsInExactlyTheBands ==
    /\ \A i \in 1..Len(svg) :
        svg[i].kind = "wall" =>
            /\ svg[i].top \in heights
            /\ svg[i].bottom = BandBottom(svg[i].top)
            /\ svg[i].building \in 1..Len(buildings)
    /\ \A k \in 1..Len(buildings) :
        \A p \in 1..Len(buildings[k].parts) :
            \A t \in heights :
                WallDraws(k, buildings[k].parts[p].id, t) =
                    IF buildings[k].min_height < t /\ t <= buildings[k].height
                    THEN 1 ELSE 0

\* The buildings of the scenario: min_height 0, height 10 m, against the
\* bands topping at 0, 5 m and 10 m.
ScenarioBuilding(k) ==
    /\ heights = {0, 10, 20}
    /\ buildings[k].min_height = 0
    /\ buildings[k].height = 20

ScenarioWalls(k) ==
    \A p \in 1..Len(buildings[k].parts) :
        {t \in heights : WallDraws(k, buildings[k].parts[p].id, t) > 0} = {10, 20}

ScenarioRoof(k) ==
    /\ Cardinality(RoofDraws(k)) = 1
    /\ \A i \in RoofDraws(k) : svg[i].band = 20

\* C6 (as claimed): in isometric mode the walls are drawn in exactly the
\* bands with min_height < top <= height, and the scenario building gets
\* walls in the bands topping at 5 m and 10 m and exactly one roof, in the
\* band topping at 10 m.
C6_BandsAsClaimed ==
    (drawPc = "done" /\ building_mode = "ISOMETRIC") =>
        /\ WallsInExactlyTheBands
        /\ \A k \in 1..Len(buildings) :
            ScenarioBuilding(k) => (ScenarioWalls(k) /\ ScenarioRoof(k))

\* C6 (amended): the same, the one roof draw being there when roofs are
\* enabled (configuration.draw_roofs); with roofs disabled no roof is drawn.
C6_Bands ==
    (drawPc = "done" /\ building_mode = "ISOMETRIC") =>
        /\ WallsInExactlyTheBands
        /\ \A k \in 1..Len(buildings) :
            ScenarioBuilding(k) =>
                /\ ScenarioWalls(k)
                /\ draw_roofs => ScenarioRoof(k)
                /\ ~draw_roofs => RoofDraws(k) = {}

\* C6 witness: the scenario building has been drawn with roofs enabled, next
\* to a building that starts above the ground.
C6_Witness ==
    /\ drawPc = "done"
    /\ building_mode = "ISOMETRIC"
    /\ draw_roofs
    /\ Len(buildings) = 2
    /\ ScenarioBuilding(1)
    /\ buildings[2].min_height > 0
    /\ Len(buildings[1].parts) = 2

\* C7: in isometric mode with roofs enabled and every building's height
\* among the band heights, no roof is ever drawn twice or in a band other
\* than the one topping at the building's height, and when the loop has
\* ended every building has exactly one roof.
C7_RoofOnce ==
    (building_mode = "ISOMETRIC" /\ draw_roofs
        /\ \A k \in 1..Len(buildings) : buildings[k].height \in heights) =>
        \A k \in 1..Len(buildings) :
            /\ Cardinality(RoofDraws(k)) <= 1
            /\ \A i \in RoofDraws(k) : svg[i].band = buildings[k].height
            /\ drawPc = "done" => Cardinality(RoofDraws(k)) = 1

\* C7 witness: two buildings of different heights have both got their roof.
C7_Witness ==
    /\ drawPc = "done"
    /\ building_mode = "ISOMETRIC"
    /\ draw_roofs
    /\ Len(buildings) = 2
    /\ buildings[1].height # buildings[2].height
    /\ \A k \in 1..2 : buildings[k].height \in heights
    /\ \A k \in 1..2 : Cardinality(RoofDraws(k)) = 1

(***************************************************************************)
(* Claims about Building.__init__.                                         *)
(***************************************************************************)
Present(v) == v # <<>>

\* C8 (as claimed): first match wins in the order level count, explicit
\* height, default.
C8_HeightAsClaimed ==
    bldPc = "built" =>
        building.height =
            IF Present(tags.levels)
            THEN BUILDING_MINIMAL_HEIGHT + tags.levels[1] * LEVEL_HEIGHT
            ELSE IF Present(tags.height)
            THEN BUILDING_MINIMAL_HEIGHT + tags.height[1]
            ELSE BUILDING_MINIMAL_HEIGHT

\* C8 (amended): the explicit height wins over the level count: a non-zero
\* height length gives 8.0 + length, else a non-zero level count gives
\* 8.0 + levels * 2.5, else 8.0.
C8_Height ==
    bldPc = "built" =>
        /\ (Present(tags.height) /\ tags.height[1] # 0) =>
            building.height = BUILDING_MINIMAL_HEIGHT + tags.height[1]
        /\ (~(Present(tags.height) /\ tags.height[1] # 0)
                /\ Present(tags.levels) /\ tags.levels[1] # 0) =>
            building.height =
                BUILDING_MINIMAL_HEIGHT + tags.levels[1] * LEVEL_HEIGHT
        /\ (~(Present(tags.height) /\ tags.height[1] # 0)
                /\ ~(Present(tags.levels) /\ tags.levels[1] # 0)) =>
            building.height = BUILDING_MINIMAL_HEIGHT

\* C8 witness: a building with a level count and an explicit height that
\* give different heights has been built.
C8_Witness ==
    /\ bldPc = "built"
    /\ tags.levels = <<2>>
    /\ tags.height = <<1>>
    /\ building.height = BUILDING_MINIMAL_HEIGHT + 1

\* C9 (as claimed): first match wins in the order min-level (the value 0
\* included), explicit min-height, zero.
C9_MinHeightAsClaimed ==
    bldPc = "built" =>
        building.min_height =
            IF Present(tags.min_level)
            THEN BUILDING_MINIMAL_HEIGHT + tags.min_level[1] * LEVEL_HEIGHT
            ELSE IF Present(tags.min_height)
            THEN BUILDING_MINIMAL_HEIGHT + tags.min_height[1]
            ELSE 0

\* C9 (amended): the explicit min-height wins over the min-level, and a
\* value of 0 counts as missing: a non-zero min_height length gives
\* 8.0 + length, else a non-zero min-level gives 8.0 + min_level * 2.5,
\* else 0.
C9_MinHeight ==
    bldPc = "built" =>
        /\ (Present(tags.min_height) /\ tags.min_height[1] # 0) =>
            building.min_height = BUILDING_MINIMAL_HEIGHT + tags.min_height[1]
        /\ (~(Present(tags.min_height) /\ tags.min_height[1] # 0)
                /\ Present(tags.min_level) /\ tags.min_level[1] # 0) =>
            building.min_height =
                BUILDING_MINIMAL_HEIGHT + tags.min_level[1] * LEVEL_HEIGHT
        /\ (~(Present(tags.min_height) /\ tags.min_height[1] # 0)
                /\ ~(Present(tags.min_level) /\ tags.min_level[1] # 0)) =>
            building.min_height = 0

\* C9 witness: a building with a min-level and an explicit min-height that
\* give different values has been built.
C9_Witness ==
    /\ bldPc = "built"
    /\ tags.min_level = <<2>>
    /\ tags.min_height = <<1>>
    /\ building.min_height = BUILDING_MINIMAL_HEIGHT + 1

Known(material) == material \in {"brick"}

Given(value) == value \notin {None, ""}

\* C10 (as claimed): first match wins in the order material found in the
\* table, building:colour, colour, default wall colour.
C10_WallColorAsClaimed ==
    bldPc = "built" =>
        building.wall_color =
            IF Known(tags.material) THEN <<"material", tags.material>>
            ELSE IF Given(tags.building_colour)
            THEN <<"color", tags.building_colour>>
            ELSE IF Given(tags.colour) THEN <<"color", tags.colour>>
            ELSE building.wall_default_color

\* C10 (amended): the last match wins: the colour tag, else the
\* building:colour tag, else the colour of a material found in the table,
\* else the default wall colour (construction or normal).
C10_WallColor ==
    bldPc = "built" =>
        /\ building.wall_color =
            IF Given(tags.colour) THEN <<"color", tags.colour>>
            ELSE IF Given(tags.building_colour)
            THEN <<"color", tags.building_colour>>
            ELSE IF Known(tags.material) THEN <<"material", tags.material>>
            ELSE building.wall_default_color
        /\ building.wall_default_color =
            IF tags.building = "construction" \/ tags.construction = "yes"
            THEN <<"color", "wall_construction_color">>
            ELSE <<"color", "wall_color">>

\* C10 witness: a building with a known material, a building:colour and a
\* colour tag has been built and has the colour of the colour tag.
C10_Witness ==
    /\ bldPc = "built"
    /\ tags.material = "brick"
    /\ tags.building_colour = "red"
    /\ tags.colour = "blue"
    /\ building.wall_color = <<"color", "blue">>

(***************************************************************************)
(* Claims about the illumination of walls (draw_walls).                    *)
(***************************************************************************)

\* The colour draw_walls starts from.
WallBase ==
    IF wall_call.use_building_colors THEN wall_call.wall_color
    ELSE wall_call.wall_default_color

\* The Color of the path draw_walls added.
WallDrawn == wall_svg[Len(wall_svg)].fill[2]

\* C11: for a building under construction every channel of the wall colour
\* is the base channel plus segment.angle * 0.2, not clamped; base channel
\* 0.5 and angle 3.0 give 1.1.
C11_ConstructionUnclamped ==
    (wallPc = "drawn" /\ wall_call.is_construction) =>
        /\ Len(wall_svg) = 1
        /\ wall_svg[1].stroke = wall_svg[1].fill
        /\ \A i \in 1..3 :
            WallDrawn.rgb[i] = WallBase.rgb[i] + wall_call.angle * 2
        /\ WallDrawn.luminance = 100
        /\ (wall_call.angle = 30 /\ WallBase.rgb = <<50, 50, 50>>) =>
            WallDrawn.rgb = <<110, 110, 110>>

\* C11 witness: the scenario wall (base channel 0.5, angle 3.0) has been
\* drawn with channel value 1.1.
C11_Witness ==
    /\ wallPc = "drawn"
    /\ wall_call.is_construction
    /\ wall_call.angle = 30
    /\ WallBase.rgb = <<50, 50, 50>>
    /\ WallDrawn.rgb[1] = 110

\* C12: for a completed building the rule is chosen by the height: up to
\* 0.25 / BUILDING_SCALE the luminance is multiplied by 0.70, else up to
\* 0.5 / BUILDING_SCALE by 0.85, else every channel is shifted by
\* segment.angle * 0.2 - 0.1 and clamped to [0, 1].
C12_CompletedIllumination ==
    (wallPc = "drawn" /\ ~wall_call.is_construction) =>
        /\ Len(wall_svg) = 1
        /\ wall_call.height <= 2500 =>
            (WallDrawn.rgb = WallBase.rgb /\ WallDrawn.luminance = 70)
        /\ (wall_call.height > 2500 /\ wall_call.height <= 5000) =>
            (WallDrawn.rgb = WallBase.rgb /\ WallDrawn.luminance = 85)
        /\ wall_call.height > 5000 =>
            /\ WallDrawn.luminance = 100
            /\ \A i \in 1..3 :
                LET shifted == WallBase.rgb[i] + wall_call.angle * 2 - 10
                IN /\ WallDrawn.rgb[i] \in 0..100
                   /\ shifted \in 0..100 => WallDrawn.rgb[i] = shifted
                   /\ shifted < 0 => WallDrawn.rgb[i] = 0
                   /\ shifted > 100 => WallDrawn.rgb[i] = 100

\* C12 witness: a wall of a completed building above both thresholds has
\* been drawn with a channel clamped at 1.
C12_Witness ==
    /\ wallPc = "drawn"
    /\ ~wall_call.is_construction
    /\ wall_call.height = 5001
    /\ \E i \in 1..3 :
        /\ WallBase.rgb[i] + wall_call.angle * 2 - 10 > 100
        /\ WallDrawn.rgb[i] = 100

(***************************************************************************)
(* Claims about the order of StyledFigure.                                 *)
(***************************************************************************)

\* Neither figure is less than the other.
Incomparable(i, j) == ~less[i][j] /\ ~less[j][i]

\* The two figures have equal (layer, priority) keys, the layer being the
\* value get_layer gives.
EqualKey(i, j) ==
    /\ ~FloatNe(get_layer(figures[i]), get_layer(figures[j]))
    /\ ~FloatNe(figures[i].priority, figures[j].priority)

Irreflexive == \A i \in 1..3 : ~less[i][i]

Transitive ==
    \A i, j, k \in 1..3 : (less[i][j] /\ less[j][k]) => less[i][k]

EqualKeysIncomparable ==
    \A i, j \in 1..3 : EqualKey(i, j) => Incomparable(i, j)

IncomparabilityTransitive ==
    \A i, j, k \in 1..3 :
        (Incomparable(i, j) /\ Incomparable(j, k)) => Incomparable(i, k)

\* C13 (as claimed): the less-than of StyledFigure is a strict weak order:
\* irreflexive, transitive, figures with equal keys compare as neither less
\* nor greater, and being neither less nor greater is transitive.
C13_StrictWeakOrder ==
    orderPc = "compared" =>
        /\ Irreflexive
        /\ Transitive
        /\ EqualKeysIncomparable
        /\ IncomparabilityTransitive

(***************************************************************************)
(* Claims about the fill and stroke passes of the drawing operations.      *)
(***************************************************************************)

\* rectangle, line or path has been called on a backend and has ended.
DrawCallEnded == backend # "none" /\ pathPc \in {"done", "raised"}

\* C14 (as claimed): rectangle, line or path called with a Style whose fill
\* and stroke are both unset adds no element to the vector document, issues
\* no operation on the raster surface and raises no error.
C14_NothingEmitted ==
    (DrawCallEnded /\ style.fill = None /\ style.stroke = None) =>
        /\ image = <<>>
        /\ context = <<>>
        /\ pathError = None

\* The cairo calls that paint, and the ones that lay out geometry.
PaintOps == {"set_source_rgba", "set_line_width", "fill", "stroke"}

GeometryCalls == SelectSeq(context, LAMBDA c : c.op \notin PaintOps)

FillPaint == <<Call("set_source_rgba", <<style.fill>>), Call("fill", <<>>)>>

StrokePaint ==
    <<Call("set_source_rgba", <<style.stroke>>),
      Call("set_line_width", <<style.width>>), Call("stroke", <<>>)>>

\* The shapes the claim is about: a rectangle, a line of at least one
\* point, the path of the scenario.
ShapeToPaint ==
    \/ shape = "rectangle"
    \/ shape = "line" /\ points # <<>>
    \/ shape = "none" /\ text = ScenarioText

\* C15 (as claimed): on the raster backend a call of rectangle, line or path
\* with fill and stroke set lays out the geometry, paints the fill, lays
\* out the same geometry again and paints the stroke; with one of them set
\* it lays out the geometry once and paints that one only, with its own
\* colour (and width).
C15_FillThenStroke ==
    (DrawCallEnded /\ backend = "png" /\ ShapeToPaint) =>
        /\ pathPc = "done"
        /\ (style.fill # None /\ style.stroke # None) =>
            LET once == SubSeq(GeometryCalls, 1, Len(GeometryCalls) \div 2)
            IN /\ once # <<>>
               /\ context = once \o FillPaint \o once \o StrokePaint
        /\ (style.fill # None /\ style.stroke = None) =>
            (GeometryCalls # <<>> /\ context = GeometryCalls \o FillPaint)
        /\ (style.fill = None /\ style.stroke # None) =>
            (GeometryCalls # <<>> /\ context = GeometryCalls \o StrokePaint)

(***************************************************************************)
(* Claims about the errors of the path mini-language.                      *)
(***************************************************************************)

\* The commands _do_path has a branch for.
RecognizedCommands == {<<"m">>, <<"l">>, <<"c">>, <<"z">>, <<"v">>, <<"h">>}

\* The command list holds a command letter that is none of them.
HasUnrecognizedCommand ==
    \E i \in 1..Len(commands) :
        /\ commands[i].t = "str"
        /\ Len(commands[i].s) = 1
        /\ Lower(commands[i].s) \notin RecognizedCommands

\* C16 (as claimed): a command list with an unrecognized command is always
\* rejected with an error when the raster backend executes it, wherever the
\* command stands, the last element included; it is never silently ignored
\* or taken for another command.
C16_UnsupportedRejected ==
    (DrawCallEnded /\ shape = "none" /\ backend = "png" /\ Passes(style) > 0
        /\ HasUnrecognizedCommand) =>
        (pathPc = "raised" /\ pathError # None)

\* parse_path has been called and has ended.
ParseEnded == pathPc # "start" /\ shape = "none" /\ ~(text = <<>> /\ commands \in GivenCommands)

\* The text is a point command and one token that is the x component of a
\* point with no y after it ("M 3"), or that is no number ("M X").
LacksOperand ==
    LET parts == Split(text, " ")
    IN /\ Len(parts) = 2
       /\ parts[1] \in {<<"M">>, <<"m">>, <<"L">>, <<"C">>}
       /\ parts[2] \in {<<"3">>, <<"X">>}

\* C17 (as claimed): for a text whose operand is missing or is no number
\* parse_path returns no command list and fails with one and the same kind
\* of error, the one an unparsable number gives.
C17_OneParseError ==
    (ParseEnded /\ LacksOperand) =>
        /\ pathPc = "raised"
        /\ commands = <<>>
        /\ pathError = "ValueError"

(***************************************************************************)
(* Claims about Map.draw.                                                  *)
(***************************************************************************)

\* The priority of the figure of the constructor with this id.
FigurePriority(id) ==
    LET i == CHOOSE k \in 1..Len(scene.figures) : scene.figures[k].id = id
    IN scene.figures[i].priority

\* The place of a draw operation in the order of the claim, told from what
\* was drawn: 1 background, 2 figures below the road threshold, 3 roads,
\* 4 figures at or above it, 5 trees, 6 craters, 7 buildings, 8 direction
\* sectors, 9 main glyphs, 10 extra glyphs, 11 text labels, 12 credit.
PlaceOf(e) ==
    CASE e.kind = "rect" -> 1
      [] e.kind = "figure" ->
            IF FigurePriority(e.item) < ROAD_PRIORITY THEN 2 ELSE 4
      [] e.kind = "roads" -> 3
      [] e.kind = "tree" -> 5
      [] e.kind = "crater" -> 6
      [] e.kind \in {"flat", "shade_group", "wall", "roof"} -> 7
      [] e.kind = "direction_sector" -> 8
      [] e.kind = "main_shapes" -> 9
      [] e.kind = "extra_shapes" -> 10
      [] e.kind = "texts" -> 11
      [] e.kind = "text" -> 12

\* C18: the draw operations of Map.draw come in the fixed order background,
\* figures below the road threshold, roads, figures at or above the
\* threshold, trees, craters, buildings, direction sectors, point icons
\* (main glyphs, extra glyphs, text labels), credit; no operation of an
\* earlier pass comes after one of a later pass, the background is the
\* first operation and the roads are drawn once.
C18_DrawOrder ==
    /\ \A i, j \in 1..Len(map_svg) :
           i < j => PlaceOf(map_svg[i]) <= PlaceOf(map_svg[j])
    /\ mapPc # "start" =>
           /\ PlaceOf(map_svg[1]) = 1
           /\ \A i \in 2..Len(map_svg) : PlaceOf(map_svg[i]) > 1
    /\ mapPc = "done" =>
           Len(SelectSeq(map_svg, LAMBDA e : PlaceOf(e) = 3)) = 1

\* Map.draw has returned and every one of the twelve places has an
\* operation.
C18_Witness ==
    /\ mapPc = "done"
    /\ \A place \in 1..12 : \E i \in 1..Len(map_svg) : PlaceOf(map_svg[i]) = place

\* The categories that can be disabled, named by what disables them.
Toggles ==
    {"draw_trees", "draw_craters", "draw_buildings", "draw_directions",
     "draw_nodes", "show_credit", "building_mode"}

\* The category is disabled in the configuration.
Disabled(cf, toggle) ==
    IF toggle = "building_mode" THEN cf.building_mode = "NO" ELSE ~cf[toggle]

\* The configurations that differ from the configuration by having the
\* category enabled.
Enabling(cf, toggle) ==
    IF toggle = "building_mode"
    THEN {[cf EXCEPT !.building_mode = mode] : mode \in {"FLAT", "ISOMETRIC"}}
    ELSE {[cf EXCEPT ![toggle] = TRUE]}

\* The places of the draw operations of the category.
PlacesOf(toggle) ==
    CASE toggle = "draw_trees" -> {5}
      [] toggle = "draw_craters" -> {6}
      [] toggle \in {"draw_buildings", "building_mode"} -> {7}
      [] toggle = "draw_directions" -> {8}
      [] toggle = "draw_nodes" -> {9, 10, 11}
      [] toggle = "show_credit" -> {12}

\* The draw operations of a drawing that are not of the category.
Others(drawing, toggle) ==
    SelectSeq(drawing, LAMBDA e : PlaceOf(e) \notin PlacesOf(toggle))

\* C19: while a category is disabled (draw_trees, draw_craters,
\* draw_buildings, draw_directions, draw_nodes, show_credit false, or
\* building_mode NO) Map.draw makes no draw operation of that category, and
\* when it has returned the operations of the other categories are the ones
\* it makes, in the same order, with the category enabled.
C19_DisabledCategory ==
    \A toggle \in Toggles :
        Disabled(config, toggle) =>
            /\ \A i \in 1..Len(map_svg) :
                   PlaceOf(map_svg[i]) \notin PlacesOf(toggle)
            /\ mapPc = "done" =>
                   \A enabled \in Enabling(config, toggle) :
                       Others(map_svg, toggle)
                           = Others(draw(scene, enabled), toggle)

\* Map.draw has returned with the trees and the credit disabled and no
\* building mode, where the constructor has trees and buildings, and with
\* craters and point icons drawn; with the trees enabled there are more
\* operations.
C19_Witness ==
    /\ mapPc = "done"
    /\ ~config.draw_trees /\ ~config.show_credit
    /\ config.draw_buildings /\ config.building_mode = "NO"
    /\ scene.trees # <<>> /\ scene.buildings # <<>>
    /\ \E i \in 1..Len(map_svg) : PlaceOf(map_svg[i]) = 6
    /\ \E i \in 1..Len(map_svg) : PlaceOf(map_svg[i]) = 11
    /\ Len(draw(scene, [config EXCEPT !.draw_trees = TRUE])) > Len(map_svg)

(***************************************************************************)
(* Claims about write.                                                     *)
(***************************************************************************)

\* write has returned or raised.
WriteEnded == writePc \in {"returned", "raised"}

\* C20: when write has returned or raised, on either backend, the output
\* file is not left open, whether the write succeeded, the file could not
\* be opened, or writing failed partway; a failure has reached the caller as
\* an exception, a success has written the whole image, and the file was
\* opened once, with no second attempt.
C20_HandleReleased ==
    WriteEnded =>
        /\ output_file # "open"
        /\ opens = 1
        /\ fault.at # "none" => (writePc = "raised" /\ writeError # None)
        /\ fault.at = "none" =>
               /\ writePc = "returned"
               /\ writeError = None
               /\ written = pieces
               /\ output_file = "closed"

\* The vector backend's write has raised after writing a part of the image,
\* and the file it had opened is closed.
C20_Witness ==
    /\ writePc = "raised"
    /\ writer = "SVGDrawing"
    /\ fault.at = "write"
    /\ written > 0 /\ written < pieces
    /\ output_file = "closed"

(***************************************************************************)
(* Claims about the boundary box option.                                   *)
(***************************************************************************)

\* convert has returned or raised.
BoxEnded == boxPc \in {"returned", "raised"}

\* The text is a number: an optional "-", digits, an optional "." and digit.
IsNumberText(elem) == BoxFloat(elem).ok /\ ~BoxFloat(elem).value.nan

\* The text consists of exactly four numbers.
FourNumbers ==
    LET elems == Split(box_value, ",")
    IN Len(elems) = 4 /\ \A i \in 1..4 : IsNumberText(elems[i])

\* The four numbers of the text, in tenths.
BoxNumber(i) == BoxFloat(Split(box_value, ",")[i]).value.v

\* C21 (as claimed): a boundary box text is accepted only when it consists
\* of exactly four numbers left,bottom,right,top; it is rejected with
\* "Negative horizontal boundary." when right is not greater than left, with
\* "Negative vertical boundary." when top is not greater than bottom, with
\* "Boundary box is too big." when the width or the height exceeds the
\* maximum difference, and as invalid when it has no four numeric
\* components; every other text is accepted and yields the four values.
C21_BoundaryBoxParsing ==
    BoxEnded =>
        /\ box_result.error = None => FourNumbers
        /\ ~FourNumbers => boxPc = "raised"
        /\ (FourNumbers /\ box_result.error = "BadParameter") => FALSE
        /\ FourNumbers =>
            LET left == BoxNumber(1)
                bottom == BoxNumber(2)
                right == BoxNumber(3)
                top == BoxNumber(4)
            IN IF ~(right > left)
               THEN box_result.error = "Negative horizontal boundary."
               ELSE IF ~(top > bottom)
               THEN box_result.error = "Negative vertical boundary."
               ELSE IF \/ right - left > LONGITUDE_MAX_DIFFERENCE
                       \/ top - bottom > LATITUDE_MAX_DIFFERENCE
               THEN box_result.error = "Boundary box is too big."
               ELSE /\ boxPc = "returned"
                    /\ box_result.result
                           = <<Number(left), Number(bottom), Number(right),
                               Number(top)>>

(***************************************************************************)
(* Claims about render_map and the scheme path.                            *)
(***************************************************************************)

\* render_map has ended after the scheme was found.
RenderEnded ==
    renderPc \in {"done", "raised", "exited"} /\ scheme_path # <<>>

\* None of input files, boundary box and coordinates is given.
NothingGiven ==
    /\ render_args.input_file_names = <<>>
    /\ render_args.boundary_box = <<>>
    /\ render_args.coordinates = <<>>

SpecifyEither == "Specify either --input, or --boundary-box, or --coordinates."

\* C22 (as claimed): render_map stops with "Specify either --input, or
\* --boundary-box, or --coordinates." only when none of the three is given;
\* with input file names given the rendering goes on with those files as
\* the data (all of them when they exist, up to the first that is no file
\* otherwise); data is downloaded only when no input file is given and a
\* boundary box is known.
C22_InputSelection ==
    RenderEnded =>
        /\ (renderPc = "exited" \/ render_error = SpecifyEither) => NothingGiven
        /\ render_args.input_file_names # <<>> =>
               \/ /\ renderPc = "done"
                  /\ osm_data = render_args.input_file_names
               \/ /\ renderPc = "raised"
                  /\ render_error \in {"No such file", "Wrong coordinates format."}
        /\ requests # <<>> =>
               (render_args.input_file_names = <<>> /\ boundary_box_obj # <<>>)

\* C23 (as claimed): the scheme path is the default path for an empty
\* identifier, <identifier>.yml of the scheme directory when that is a file,
\* the identifier as a path when that is a file, and otherwise there is
\* none and render_map raises "Scheme `<id>` not found.".
C23_SchemePath ==
    renderPc # "start" =>
        LET identifier == render_args.scheme
        IN IF identifier = "" THEN scheme_path = <<DEFAULT_SCHEME_PATH>>
           ELSE IF SchemeFile(identifier) \in is_file
                THEN scheme_path = <<SchemeFile(identifier)>>
           ELSE IF Path(identifier) \in is_file
                THEN scheme_path = <<Path(identifier)>>
           ELSE /\ scheme_path = <<>>
                /\ renderPc = "raised"
                /\ render_error = "Scheme not found."

(***************************************************************************)
(* Claims about the axis commands of the path interpreter.                 *)
(***************************************************************************)

\* _do_path executes the operand of an H or h (V or v) command.
AxisStep(letter) ==
    /\ InDoPath
    /\ commands[index].t = "float"
    /\ command = <<letter>>
    /\ index' = index + 1

\* C24 (as claimed): executing the operand of a Horizontal command changes
\* only the x coordinate of the current point, and of a Vertical command
\* only the y coordinate, in absolute and in relative mode: the other
\* coordinate of the current point is what it was before the command.
C24_SingleAxis ==
    [][/\ AxisStep("h") => current'[2] = current[2]
       /\ AxisStep("v") => current'[1] = current[1]]_vars

(***************************************************************************)
(* Claims about the tokens of parse_path.                                  *)
(***************************************************************************)

\* parse_path has returned the command list of the text.
Parsed == pathPc = "parsed" /\ ParseEnded

\* The text with one space between its non-empty tokens.
Squeezed(string) ==
    Join(SelectSeq(Split(string, " "), LAMBDA token : token # <<>>))

\* C25 (as claimed): the command list parse_path returns depends only on
\* the non-empty tokens of the text: it is the list returned for the text
\* with single spaces between them, and no empty string is in it as a
\* command.
C25_WhitespaceTokens ==
    Parsed =>
        /\ parse_path(Squeezed(text)).error = None
        /\ commands = parse_path(Squeezed(text)).result
        /\ \A i \in 1..Len(commands) : commands[i] # Str(<<>>)

(***************************************************************************)
(* Claims about the figures and the points of Map.draw.                    *)
(***************************************************************************)

\* Map.draw is past its two figure passes.
AfterFigures ==
    mapPc \in {"trees", "craters", "buildings", "directions", "nodes",
               "credits", "done"}

\* The figures drawn by a pass, in the order drawn.
FiguresDrawnBy(pass_name) ==
    LET drawn == SelectSeq(map_svg,
                     LAMBDA e : e.kind = "figure" /\ e.pass = pass_name)
    IN [i \in 1..Len(drawn) |-> drawn[i].item]

\* The figures of the sorted input that have a path and are below the
\* threshold (or not below it), in the order of the input.
FiguresToDraw(below) ==
    LET kept == SelectSeq(scene.figures,
                    LAMBDA x : x.rings > 0 /\ (x.priority < 40) = below)
    IN [i \in 1..Len(kept) |-> kept[i].id]

\* The number of times the figure is drawn.
TimesDrawn(id) ==
    Cardinality({i \in 1..Len(map_svg) :
                    map_svg[i].kind = "figure" /\ map_svg[i].item = id})

\* C26: after the figure passes every figure of the sorted list is in
\* exactly one of the two groups: the pass before the roads has drawn the
\* figures with priority below 40, the pass after the roads the figures
\* with priority 40 or more, each in the order of the sorted input; a figure
\* with a non-empty path is drawn exactly once and a figure with an empty
\* path is not drawn.
C26_FigureSplit ==
    AfterFigures =>
        /\ FiguresDrawnBy("bottom_figures") = FiguresToDraw(TRUE)
        /\ FiguresDrawnBy("top_figures") = FiguresToDraw(FALSE)
        /\ \A i \in 1..Len(scene.figures) :
               TimesDrawn(scene.figures[i].id)
                   = IF scene.figures[i].rings > 0 THEN 1 ELSE 0

\* Map.draw has returned after drawing two figures of equal priority below
\* the threshold in their input order and two figures with priority 40
\* after the roads, with a figure without a path left out.
C26_Witness ==
    /\ mapPc = "done"
    /\ FiguresDrawnBy("bottom_figures") = <<1, 2>>
    /\ FiguresDrawnBy("top_figures") = <<3, 5>>
    /\ \E i \in 1..Len(scene.figures) : scene.figures[i].rings = 0
    /\ \A id \in {3, 5} : FigurePriority(id) = 40

\* Map.draw is past its point passes, which were made.
AfterNodes == mapPc \in {"credits", "done"} /\ config.draw_nodes

\* The points a pass over the points has drawn, in the order drawn.
PointsDrawnBy(kind) ==
    LET drawn == SelectSeq(map_svg, LAMBDA e : e.kind = kind)
    IN [i \in 1..Len(drawn) |-> drawn[i].item]

\* The place and the priority of a point in constructor.points.
PointIndex(id) == CHOOSE i \in 1..Len(scene.points) : scene.points[i].id = id

PointPriority(id) == scene.points[PointIndex(id)].priority

\* The list holds every point once, by descending priority, points of equal
\* priority in the order of constructor.points.
DescendingStable(list) ==
    /\ Len(list) = Len(scene.points)
    /\ {list[i] : i \in 1..Len(list)}
           = {scene.points[i].id : i \in 1..Len(scene.points)}
    /\ \A i, j \in 1..Len(list) :
           i < j =>
               \/ PointPriority(list[i]) > PointPriority(list[j])
               \/ /\ PointPriority(list[i]) = PointPriority(list[j])
                  /\ PointIndex(list[i]) < PointIndex(list[j])

\* Labels are drawn: not wireframe and the label mode is not NO.
LabelsDrawn == ~config.is_wireframe /\ config.label_mode # "NO"

\* C27: with point drawing enabled Map.draw passes three times over the
\* points in one order, descending priority with ties in input order: all
\* main glyphs are drawn before all extra glyphs, and these before all text
\* labels (drawn when labels are), each pass in that order, and every draw
\* gets the one occupied tracker.
C27_PointPasses ==
    AfterNodes =>
        /\ DescendingStable(PointsDrawnBy("main_shapes"))
        /\ PointsDrawnBy("extra_shapes") = PointsDrawnBy("main_shapes")
        /\ PointsDrawnBy("texts")
               = IF LabelsDrawn THEN PointsDrawnBy("main_shapes") ELSE <<>>
        /\ \A i, j \in 1..Len(map_svg) :
               /\ (map_svg[i].kind = "main_shapes"
                       /\ map_svg[j].kind \in {"extra_shapes", "texts"}) => i < j
               /\ (map_svg[i].kind = "extra_shapes"
                       /\ map_svg[j].kind = "texts") => i < j
        /\ \A i \in 1..Len(map_svg) :
               map_svg[i].kind \in {"main_shapes", "extra_shapes", "texts"}
                   => map_svg[i].extra = <<occupied>>

\* Map.draw has returned after drawing the points 1, 2, 3 of priorities
\* 2, 1, 2 in the order 1, 3, 2 in each of the three passes, with a tracker.
C27_Witness ==
    /\ mapPc = "done"
    /\ config.draw_nodes
    /\ occupied = "Occupied"
    /\ PointsDrawnBy("main_shapes") = <<1, 3, 2>>
    /\ PointsDrawnBy("texts") = <<1, 3, 2>>
    /\ PointPriority(1) = PointPriority(3)

(***************************************************************************)
(* Claims about buildings without walls.                                   *)
(***************************************************************************)

\* C28 (as claimed): a building whose has_walls is false (building=roof)
\* gets no wall quad, in any building mode and in any height band: every
\* wall quad drawn by Map.draw_buildings is of a building with walls.
C28_NoWallsForRoof ==
    \A i \in 1..Len(svg) :
        svg[i].kind = "wall" => buildings[svg[i].building].has_walls

(***************************************************************************)
(* Claims about MinMax.                                                    *)
(***************************************************************************)

\* The values passed so far.
PassedValues == {passed[i] : i \in 1..Len(passed)}

\* C29 (as claimed): after one or more update calls on a fresh MinMax min_
\* is the smallest and max_ the largest of the values passed, 0 and
\* negative values included.
C29_MinMax ==
    passed # <<>> =>
        /\ min_ = <<CHOOSE v \in PassedValues : \A w \in PassedValues : v <= w>>
        /\ max_ = <<CHOOSE v \in PassedValues : \A w \in PassedValues : v >= w>>

(***************************************************************************)
(* Claims about get_osm.                                                   *)
(***************************************************************************)

\* C30: after any sequence of get_osm calls: a call whose response does not
\* start with "<" has raised NetworkError and left the cache file as it was
\* (none, or the content it had); a cache file written by get_osm holds
\* content that starts with "<"; and a call with to_update false and the
\* cache file there has returned the content of the file without a request.
C30_CacheKeepsOsmData ==
    osm_calls > 0 =>
        /\ (/\ last.requested
            /\ ~last.response.raised
            /\ ~StartsWith(last.response.data, "<")) =>
               /\ last.error = "NetworkError"
               /\ cache = last.cache_before
        /\ cache_written => (cache # <<>> /\ StartsWith(cache[1], "<"))
        /\ (~last.to_update /\ last.cache_before # <<>>) =>
               /\ ~last.requested
               /\ last.error = None
               /\ last.result = last.cache_before[1]
               /\ cache = last.cache_before

\* A call with to_update true got a response that does not start with "<"
\* while the cache file written by an earlier call was there: it raised and
\* the file is as it was.
C30_Witness ==
    /\ osm_calls > 1
    /\ cache_written
    /\ last.to_update /\ last.requested
    /\ last.response = Reply(FALSE, TooManyNodes)
    /\ last.error = "NetworkError"
    /\ cache = last.cache_before
    /\ cache # <<>>

====
